---- MODULE Spec2Model ----
(***************************************************************************)
(* mount-exporter: the resilient probe execution layer.                    *)
(*                                                                         *)
(*   reliability/circuit_breaker.go   CircuitBreaker (Spec)                *)
(*   reliability/retry.go             Retry.Do, calculateDelay,            *)
(*                                    DoWithValue (RetrySpec, DelaySpec,   *)
(*                                    ValueSpec)                           *)
(*   FindmntWrapper                   findmnt output parsing (ParseSpec)   *)
(*   config/config.go                 ConfigWatcher (WatchSpec)            *)
(*   resources/cleanup.go             ResourceManager (ManagerSpec)        *)
(*                                                                         *)
(* Time is a discrete clock `now`.  time.Duration is a 64-bit two's        *)
(* complement count; the model keeps that structure at DurBits bits.       *)
(***************************************************************************)
EXTENDS Integers, Sequences, FiniteSets, Bags, TLC

VARIABLES
    \* ---- CircuitBreaker fields (circuit_breaker.go:19-28)
    maxFailures,    \* cb.maxFailures
    resetTimeout,   \* cb.resetTimeout
    state,          \* cb.state
    failures,       \* cb.failures
    lastFailTime,   \* cb.lastFailTime
    onStateChange,  \* cb.onStateChange: nil, an observer, an empty function,
                    \* or the recorder of TestCircuitBreaker_StateChangeCallback
    pending,        \* the bag of notifications whose goroutine has not returned
    mu,             \* who keeps cb.mu between steps: "free" when nobody does
    callbacks,      \* the recorder's slice: the calls it got, in order
    panicked,       \* a goroutine panicked with no recover: the program is gone
    \* ---- callers of the breaker
    pc,             \* pc[p]: "idle", or "fn" while p's wrapped operation runs
    nexec,          \* number of Execute calls started so far
    \* ---- the clock
    now,
    \* ---- history of the breaker
    ev,             \* the last step taken and the breaker as it was before it
    adm,            \* adm[p]: the breaker state p's running call was admitted in
    streak,         \* failing Execute calls made back to back on a fresh breaker
    \* ---- Retry (retry.go:35-37) and the build it runs on
    config,         \* r.config
    arch,           \* GOARCH: decides out-of-range float-to-integer conversions
    \* ---- one Do call (retry.go:117-155)
    rpc,            \* "loop", "select", "call" (fn is running), "done"
    attempt,        \* the loop variable
    lastErr,        \* lastErr
    timer,          \* the instant time.After(delay) fires
    woken,          \* what the select has been woken by: "none", "timer", "ctx"
    ctxErr,         \* ctx.Err()
    rres,           \* what Do returned
    \* ---- history of the Do call
    outs,           \* what each invocation of fn returned, in order
    nwaits,         \* inter-attempt waits completed
    waitStart,      \* when the last wait began
    waitEnd,        \* when the last wait ended
    cancelAt,       \* where Do was when the context was cancelled
    \* ---- one application of calculateDelay
    calc,
    \* ---- one application of IsTransientError
    te,
    \* ---- FindmntWrapper.CheckMountPoint (part_003:406-515)
    began,          \* began[p]: the breaker state p's last Check found
    status,         \* result.Status of the prober's running Check
    res,            \* the result the prober's last Check returned
    runs,           \* how each run of the command ended, in the prober's Check
    \* ---- one CheckMultipleMountPoints call (part_003:518-557)
    mountPoints,    \* the targets
    task,           \* task[k]: "run" until goroutine k has sent its result
    resultChan,     \* the buffered channel
    mi,             \* the collecting loop's i: results received so far
    results,        \* the slots
    mctx,           \* ctx.Err() of the call's context
    mpc,            \* "start", "loop", "returned"
    \* ---- one Collector.Collect call (metrics/collector_test.go:408-489)
    cfgMountPoints, \* the c.config.MountPoints that Collect ranges over
    ci,             \* targets the loop has been through
    healthy,        \* healthy
    metricCh,       \* the metrics sent on ch, in order
    probed,         \* what CheckMountPoint returned for each target so far
    cpc,            \* "idle", "loop", "done"
    \* ---- Collector (metrics/collector_test.go:354-365)
    cMu,            \* c.mu: how many read locks on it are held
    cConfig,        \* c.config.MountPoints
    cFindmnt,       \* c.findmnt: which wrapper, counted from NewCollector's
    updates,        \* UpdateConfig calls made so far
    cycle,          \* what the Collect call under way has read
    \* ---- one DoWithValue call (retry.go:158-198); its other locals are
    \*      those of the Do call above
    result,         \* result
    vret,           \* the value DoWithValue returned
    lastVal,        \* the value the last invocation of fn returned
    \* ---- one parse of the command's output (part_003:480-513)
    pf,
    \* ---- ConfigWatcher (config.go:202-325) and the file it watches
    running,        \* cw.running
    cancelled,      \* cw.ctx has been cancelled
    loops,          \* the watchLoop goroutines started, each with its
                    \* position and its lastModTime
    cwConfig,       \* *cw.config
    file,           \* the file at cw.configPath
    cbCalls,        \* the configurations the callback was started with
    nwatch,         \* Watch and Stop calls made so far
    wev,            \* the last step of the watcher and the state before it
    \* ---- ResourceManager (cleanup.go:35-48)
    resources,      \* rm.resources: the cleanup registered under each id
    stats,          \* rm.stats: the three counters of the registry
    invoked,        \* invoked[id]: calls made of cleanups registered as id
    rmcall,         \* the CleanupResource call in progress
    nrm,            \* calls of the manager's methods so far
    rmev            \* the last step of the manager and the state before it

obsVars == <<onStateChange, pending, mu, callbacks, panicked>>

cbVars == <<maxFailures, resetTimeout, state, failures, lastFailTime,
            pc, nexec, ev, adm, streak, obsVars>>

rtVars == <<config, arch, rpc, attempt, lastErr, timer, woken, ctxErr, rres,
            outs, nwaits, waitStart, waitEnd, cancelAt>>

\* the variables of the components built on the breaker and the retry driver
prVars == <<began, status, res, runs>>

cmVars == <<mountPoints, task, resultChan, mi, results, mctx, mpc>>

colVars == <<cfgMountPoints, ci, healthy, metricCh, probed, cpc>>

ucVars == <<cMu, cConfig, cFindmnt, updates, cycle>>

dvVars == <<result, vret, lastVal>>

\* the variables of the components added last
cwVars == <<running, cancelled, loops, cwConfig, file, cbCalls, nwatch, wev>>

rmVars == <<resources, stats, invoked, rmcall, nrm, rmev>>

moreVars == <<dvVars, pf, cwVars, rmVars, ucVars>>

auxVars == <<te, cmVars, colVars, moreVars>>

\* what the steps of one component leave alone
teRest == <<cbVars, now, rtVars, calc, prVars, cmVars, colVars, moreVars>>
cmRest == <<cbVars, now, rtVars, calc, prVars, te, colVars, moreVars>>
colRest == <<cbVars, now, rtVars, calc, prVars, te, cmVars, moreVars>>

extVars == <<auxVars, prVars>>

vars == <<cbVars, now, rtVars, calc, extVars>>

\* ------------------------------------------------------------------ bounds
MaxThreshold == 2
MaxResetTimeout == 2
MaxTime == 4
MaxExec == 6
MaxAttemptsBound == 3
MaxAttemptArg == 4
MaxClock == 40
MaxProbeClock == 1300
MaxTargets == 3
MaxLineLen == 9
MaxOutputLen == 4
MaxWatchCalls == 3
MaxModTime == 2
MaxManagerCalls == 5
MaxUpdates == 2
DurBits == 6

Procs == {"p1", "p2"}

\* --------------------------------------------------------- circuit breaker
StateClosed == "Closed"
StateHalfOpen == "HalfOpen"
StateOpen == "Open"
States == {StateClosed, StateHalfOpen, StateOpen}

DefaultMaxFailures == 5
DefaultResetTimeout == 60

\* time.Time{}: the zero time, further in the past than any timeout
ZeroTime == -1

ErrCircuitOpen == "circuit breaker is open"
Nil == "nil"

\* NewCircuitBreaker: the breaker built from a configuration
NewCircuitBreaker(cfg) ==
    [maxFailures  |-> IF cfg.MaxFailures <= 0 THEN DefaultMaxFailures
                      ELSE cfg.MaxFailures,
     resetTimeout |-> IF cfg.ResetTimeout <= 0 THEN DefaultResetTimeout
                      ELSE cfg.ResetTimeout,
     state        |-> StateClosed,
     failures     |-> 0,
     lastFailTime |-> ZeroTime,
     onStateChange |-> cfg.OnStateChange]

\* the mutable part of the breaker, as the methods below read and write it
CB == [state |-> state, failures |-> failures, lastFailTime |-> lastFailTime]

\* time.Since(cb.lastFailTime) >= cb.resetTimeout
SinceLastFail(c) ==
    c.lastFailTime = ZeroTime \/ now - c.lastFailTime >= resetTimeout

\* allowRequest, with a breaker that also lets every call through when Open
allowRequestAlways(c) == TRUE

\* allowRequest
allowRequest(c) ==
    CASE c.state = StateClosed   -> TRUE
      [] c.state = StateOpen     -> SinceLastFail(c)
      [] c.state = StateHalfOpen -> TRUE
      [] OTHER                   -> FALSE

\* setState (the observer's notification is not part of the breaker's state)
setState(c, newState) ==
    IF c.state # newState THEN [c EXCEPT !.state = newState] ELSE c

\* onSuccess, closing an Open breaker in one step
onSuccessDirect(c) ==
    LET c1 == [c EXCEPT !.failures = 0]
    IN  CASE c1.state = StateClosed   -> c1
          [] c1.state = StateOpen     ->
                IF SinceLastFail(c1) THEN setState(c1, StateClosed) ELSE c1
          [] c1.state = StateHalfOpen -> setState(c1, StateClosed)

\* onSuccess, leaving the failure counter as it is
onSuccessKeepsCount(c) ==
    CASE c.state = StateClosed   -> c
      [] c.state = StateOpen     ->
            IF SinceLastFail(c) THEN setState(c, StateHalfOpen) ELSE c
      [] c.state = StateHalfOpen -> setState(c, StateClosed)

\* onSuccess
onSuccess(c) ==
    LET c1 == [c EXCEPT !.failures = 0]
    IN  CASE c1.state = StateClosed   -> c1
          [] c1.state = StateOpen     ->
                IF SinceLastFail(c1) THEN setState(c1, StateHalfOpen) ELSE c1
          [] c1.state = StateHalfOpen -> setState(c1, StateClosed)

\* onFailure, opening only once the counter has passed the threshold
onFailureLate(c) ==
    LET c1 == [c EXCEPT !.failures = c.failures + 1, !.lastFailTime = now]
    IN  CASE c1.state = StateClosed   ->
                IF c1.failures > maxFailures THEN setState(c1, StateOpen) ELSE c1
          [] c1.state = StateHalfOpen -> setState(c1, StateOpen)
          [] c1.state = StateOpen     -> c1

\* onFailure
onFailure(c) ==
    LET c1 == [c EXCEPT !.failures = c.failures + 1, !.lastFailTime = now]
    IN  CASE c1.state = StateClosed   ->
                IF c1.failures >= maxFailures THEN setState(c1, StateOpen) ELSE c1
          [] c1.state = StateHalfOpen -> setState(c1, StateOpen)
          [] c1.state = StateOpen     -> c1

RECURSIVE recordEach(_, _)
\* the breaker after one recordResult for each of the results errs
recordEach(c, errs) ==
    IF errs = <<>> THEN c
    ELSE recordEach(IF Head(errs) = Nil THEN onSuccess(c) ELSE onFailure(c),
                    Tail(errs))

\* recordResult, had the breaker been put around each attempt of the retry
\* loop instead of around the loop: every attempt's result is recorded
recordResultPerAttempt(c, success) ==
    IF outs = <<>> THEN (IF success THEN onSuccess(c) ELSE onFailure(c))
    ELSE recordEach(c, outs)

\* recordResult
recordResult(c, success) == IF success THEN onSuccess(c) ELSE onFailure(c)

\* Reset, zeroing the counter but leaving the state as it is
ResetCounterOnly(c) ==
    [c EXCEPT !.failures = 0, !.lastFailTime = ZeroTime]

\* Reset
ResetCB(c) ==
    setState([c EXCEPT !.failures = 0, !.lastFailTime = ZeroTime], StateClosed)

\* setState's notification, with the observer called in line: cb.mu stays
\* held until the observer returns
goOnStateChangeInline == "observer"

\* go cb.onStateChange(...): the observer runs in a goroutine of its own and
\* setState's caller goes on to release cb.mu
goOnStateChange == "free"

\* the (from, to) pairs a notification can carry
Notifications == [from : States, to : States]

\* setState started a notification on the way from the breaker as it is to c
Notifies(c) == c.state # state /\ onStateChange \in {"observer", "recorder"}

\* the goroutines and the lock after a step that leaves the breaker as c
Notify(c) ==
    /\ pending' = IF Notifies(c)
                  THEN pending (+) SetToBag({[from |-> state, to |-> c.state]})
                  ELSE pending
    /\ mu' = IF Notifies(c) THEN goOnStateChange ELSE mu
    /\ UNCHANGED <<onStateChange, callbacks, panicked>>

IsOpen == state = StateOpen
IsClosed == state = StateClosed
IsHalfOpen == state = StateHalfOpen

\* ---- history helpers
Others(p) == Procs \ {p}
NoneInFlight(S) == \A q \in S : pc[q] = "idle"
Fresh(c) == c.state = StateClosed /\ c.failures = 0

Event(op, p, ok, ret) ==
    [op |-> op, p |-> p, ok |-> ok, ret |-> ret,
     from |-> state, failures |-> failures, lastFailTime |-> lastFailTime,
     elapsed |-> SinceLastFail(CB), adm |-> IF p \in Procs THEN adm[p] ELSE "none"]

SetCB(c) ==
    /\ state' = c.state
    /\ failures' = c.failures
    /\ lastFailTime' = c.lastFailTime

\* ---- Execute, first half: allowRequest lets the call through and the
\*      wrapped operation is invoked
ExecAllow(p) ==
    /\ ~panicked
    /\ pc[p] = "idle"
    /\ nexec < MaxExec
    /\ mu = "free"
    /\ allowRequest(CB)
    /\ pc' = [pc EXCEPT ![p] = "fn"]
    /\ nexec' = nexec + 1
    /\ adm' = [adm EXCEPT ![p] = state]
    /\ ev' = Event("admit", p, TRUE, "none")
    /\ streak' = IF NoneInFlight(Others(p)) THEN streak ELSE -1
    /\ UNCHANGED <<extVars, rtVars, calc, maxFailures, resetTimeout, state, failures,
                   lastFailTime, now, obsVars>>

\* ---- Execute when allowRequest refuses: the error is returned at once
ExecReject(p) ==
    /\ ~panicked
    /\ pc[p] = "idle"
    /\ nexec < MaxExec
    /\ mu = "free"
    /\ ~allowRequest(CB)
    /\ nexec' = nexec + 1
    /\ ev' = Event("reject", p, FALSE, ErrCircuitOpen)
    /\ UNCHANGED <<extVars, rtVars, calc, maxFailures, resetTimeout, state, failures, lastFailTime,
                   pc, adm, streak, now, obsVars>>

\* ---- Execute, second half: the operation returns err and recordResult runs
ExecRecord(p, success) ==
    /\ ~panicked
    /\ pc[p] = "fn"
    /\ mu = "free"
    /\ LET c == recordResult(CB, success)
       IN  /\ SetCB(c)
           /\ Notify(c)
           /\ streak' =
                IF success
                THEN IF Fresh(c) /\ NoneInFlight(Others(p)) THEN 0 ELSE -1
                ELSE IF streak >= 0 THEN streak + 1 ELSE -1
    /\ pc' = [pc EXCEPT ![p] = "idle"]
    /\ adm' = [adm EXCEPT ![p] = "none"]
    /\ ev' = Event("record", p, success, IF success THEN Nil ELSE "error")
    /\ UNCHANGED <<extVars, rtVars, calc, maxFailures, resetTimeout, nexec, now>>

\* ---- Reset
Reset ==
    /\ ~panicked
    /\ mu = "free"
    /\ SetCB(ResetCB(CB))
    /\ Notify(ResetCB(CB))
    /\ ev' = Event("reset", "none", TRUE, "none")
    /\ streak' = IF NoneInFlight(Procs) THEN 0 ELSE -1
    /\ UNCHANGED <<extVars, rtVars, calc, maxFailures, resetTimeout, pc, nexec, adm, now>>

\* the recorder's slice after a call with n; other observers keep no record
Recorded(n) ==
    IF onStateChange = "recorder" THEN Append(callbacks, n) ELSE callbacks

\* ---- a notification's goroutine gets to run: the observer is called with
\*      n, returns, and the goroutine ends
ObserverReturns(n) ==
    /\ ~panicked
    /\ BagIn(n, pending)
    /\ pending' = pending (-) SetToBag({n})
    /\ callbacks' = Recorded(n)
    /\ UNCHANGED <<extVars, rtVars, calc, maxFailures, resetTimeout, state,
                   failures, lastFailTime, pc, nexec, ev, adm, streak, now,
                   onStateChange, mu, panicked>>

\* ---- a notification's goroutine gets to run and the observer, a function
\*      of the caller's about which nothing is known, panics:
\*      nothing on the goroutine's stack recovers, and the runtime ends the
\*      program with every other goroutine in it
ObserverPanics(n) ==
    /\ ~panicked
    /\ onStateChange = "observer"
    /\ BagIn(n, pending)
    /\ pending' = pending (-) SetToBag({n})
    /\ panicked' = TRUE
    /\ UNCHANGED callbacks
    /\ UNCHANGED <<extVars, rtVars, calc, maxFailures, resetTimeout, state,
                   failures, lastFailTime, pc, nexec, ev, adm, streak, now,
                   onStateChange, mu>>

\* ---- the clock advances
Tick ==
    /\ now < MaxTime
    /\ now' = now + 1
    /\ ev' = Event("tick", "none", TRUE, "none")
    /\ UNCHANGED <<extVars, rtVars, calc, maxFailures, resetTimeout, state, failures, lastFailTime,
                   pc, nexec, adm, streak, obsVars>>

\* ------------------------------------------------------------------- retry
BackoffStrategyLinear == "Linear"
BackoffStrategyExponential == "Exponential"
BackoffStrategyFixed == "Fixed"

\* what the operation handed to Do can return besides nil
OpErrs == {"temporary failure", "permanent failure"}

ErrCanceled == "context canceled"
ErrDeadlineExceeded == "context deadline exceeded"

\* RetryConfig: the policies the options can build.  Multiplier is the
\* float64 num/den; ShouldRetry is the set of errors the predicate accepts
\* (NewRetry's default accepts every non-nil error).
RetryConfigs ==
    [MaxAttempts  : 0..MaxAttemptsBound,
     InitialDelay : {0, 1, 11},
     MaxDelay     : {1, 22},
     Multiplier   : {<<1, 1>>, <<3, 2>>, <<3, 1>>},
     Strategy     : {BackoffStrategyLinear, BackoffStrategyExponential,
                     BackoffStrategyFixed},
     ShouldRetry  : {OpErrs, {"temporary failure"}}]

Archs == {"amd64", "arm64"}

\* time.Duration: a two's complement integer
MaxDur == 2^(DurBits - 1) - 1
MinDur == -(2^(DurBits - 1))
Wrap(x) == ((x - MinDur) % 2^DurBits) + MinDur

RECURSIVE Pow(_, _)
\* math.Pow for a whole exponent >= 0
Pow(b, k) == IF k <= 0 THEN 1 ELSE b * Pow(b, k - 1)

\* the whole part of num/den (den > 0), rounding towards zero
Trunc(num, den) ==
    IF num >= 0 THEN num \div den ELSE -((-num) \div den)

\* time.Duration(f) for the float64 f = num/den: the fraction is dropped; a
\* value the integer cannot hold converts to whatever the build's
\* instruction gives (amd64: the smallest integer; arm64: saturation)
DurationOf(num, den) ==
    LET q == Trunc(num, den)
    IN  IF q > MaxDur
        THEN IF arch = "amd64" THEN MinDur ELSE MaxDur
        ELSE IF q < MinDur THEN MinDur ELSE q

\* the delay before the cap is applied
RawDelay(a) ==
    CASE config.Strategy = BackoffStrategyLinear ->
            DurationOf(config.InitialDelay * a, 1)
      [] config.Strategy = BackoffStrategyExponential ->
            DurationOf(config.InitialDelay * Pow(config.Multiplier[1], a - 1),
                       Pow(config.Multiplier[2], a - 1))
      [] config.Strategy = BackoffStrategyFixed -> config.InitialDelay
      [] OTHER -> config.InitialDelay

\* calculateDelay
calculateDelay(a) ==
    LET delay == RawDelay(a)
    IN  IF delay > config.MaxDelay THEN config.MaxDelay ELSE delay

\* time.Duration(rand.Float64() * float64(delay) * 0.1), rand in [0, 1)
Jitters(delay) ==
    IF delay > 0 THEN 0..((delay - 1) \div 10)
    ELSE IF delay < 0 THEN (-(((-delay) - 1) \div 10))..0
    ELSE {0}

\* the wait of an attempt, taking the previous attempt's delay
WaitOfPrev(a, jitter) == Wrap(calculateDelay(a - 1) + jitter)

\* delay += jitter: what time.After is given before attempt a
WaitOf(a, jitter) == Wrap(calculateDelay(a) + jitter)

\* a predicate that retries whatever the policy says
ShouldRetryAll(err) == TRUE

\* r.config.ShouldRetry(err)
ShouldRetry(err) == err \in config.ShouldRetry

\* the last-attempt test, one attempt early
LastAttemptEarly(a) == a >= config.MaxAttempts - 2

\* attempt == r.config.MaxAttempts-1
LastAttempt(a) == a = config.MaxAttempts - 1

RetryCancelled(cause) == [kind |-> "retry cancelled", count |-> 0, wraps |-> cause]
MaxAttemptsExceeded(err) ==
    [kind |-> "max retry attempts exceeded", count |-> config.MaxAttempts,
     wraps |-> err]
Success == [kind |-> "ok", count |-> 0, wraps |-> Nil]
NoResult == [kind |-> "none", count |-> 0, wraps |-> Nil]

\* the select, going on with the retry whichever case is ready
SelectIgnoringCtx(w) == [rpc |-> "call", rres |-> NoResult]

\* the select of lines 128-133: the timer case goes on with the retry, the
\* ctx.Done() case returns
Select(w) ==
    IF w = "ctx"
    THEN [rpc |-> "done", rres |-> RetryCancelled(ctxErr)]
    ELSE [rpc |-> "call", rres |-> NoResult]

\* the loop body after fn returned err (lines 136-154)
AfterCall(err) ==
    IF err = Nil
    THEN [rpc |-> "done", attempt |-> attempt, lastErr |-> lastErr,
          rres |-> Success]
    ELSE IF ~ShouldRetry(err) \/ LastAttempt(attempt)
         THEN [rpc |-> "done", attempt |-> attempt, lastErr |-> err,
               rres |-> MaxAttemptsExceeded(err)]
         ELSE [rpc |-> "loop", attempt |-> attempt + 1, lastErr |-> err,
               rres |-> NoResult]

\* invocations of fn so far
Invocations == Len(outs) + IF rpc = "call" THEN 1 ELSE 0

\* ---- the loop head: the loop ends, or fn is invoked (first attempt), or
\*      the wait before a retry begins and the select polls its channels
DoLoop ==
    /\ rpc = "loop"
    /\ IF attempt >= config.MaxAttempts
       THEN /\ rpc' = "done"
            /\ rres' = MaxAttemptsExceeded(lastErr)
            /\ UNCHANGED <<timer, woken, waitStart>>
       ELSE IF attempt = 0
       THEN /\ rpc' = "call"
            /\ UNCHANGED <<rres, timer, woken, waitStart>>
       ELSE \E jitter \in Jitters(calculateDelay(attempt)) :
              LET d == WaitOf(attempt, jitter)
              IN  /\ rpc' = "select"
                  /\ timer' = now + (IF d > 0 THEN d ELSE 0)
                  /\ waitStart' = now
                  /\ woken' \in IF ctxErr = Nil THEN {"none"}
                                ELSE IF d <= 0 THEN {"ctx", "timer"}
                                ELSE {"ctx"}
                  /\ UNCHANGED rres
    /\ UNCHANGED <<extVars, cbVars, calc, now, config, arch, attempt, lastErr, ctxErr,
                   outs, nwaits, waitEnd, cancelAt>>

\* ---- time.After's timer fires: a select still parked is woken by it
TimerFires ==
    /\ rpc = "select"
    /\ woken = "none"
    /\ now >= timer
    /\ woken' = "timer"
    /\ UNCHANGED <<extVars, cbVars, calc, now, config, arch, rpc, attempt, lastErr,
                   timer, ctxErr, rres, outs, nwaits, waitStart, waitEnd,
                   cancelAt>>

\* ---- the woken select runs its case
DoSelect ==
    /\ rpc = "select"
    /\ woken # "none"
    /\ LET s == Select(woken)
       IN  /\ rpc' = s.rpc
           /\ rres' = s.rres
           /\ nwaits' = IF s.rpc = "call" THEN nwaits + 1 ELSE nwaits
           /\ waitEnd' = IF s.rpc = "call" THEN now ELSE waitEnd
    /\ woken' = "none"
    /\ UNCHANGED <<extVars, cbVars, calc, now, config, arch, attempt, lastErr, timer,
                   ctxErr, outs, waitStart, cancelAt>>

\* ---- fn returns err and the rest of the loop body runs
DoCall(err) ==
    /\ rpc = "call"
    /\ outs' = Append(outs, err)
    /\ LET s == AfterCall(err)
       IN  /\ rpc' = s.rpc
           /\ attempt' = s.attempt
           /\ lastErr' = s.lastErr
           /\ rres' = s.rres
    /\ UNCHANGED <<extVars, cbVars, calc, now, config, arch, timer, woken, ctxErr,
                   nwaits, waitStart, waitEnd, cancelAt>>

\* ---- the caller's context is cancelled; a select parked on it is woken
Cancel(cause) ==
    /\ ctxErr = Nil
    /\ rpc # "done"
    /\ ctxErr' = cause
    /\ woken' = IF rpc = "select" /\ woken = "none" THEN "ctx" ELSE woken
    /\ cancelAt' = [phase |-> IF rpc = "select"
                              THEN IF woken = "none" THEN "waiting" ELSE "woken"
                              ELSE rpc,
                    calls |-> Invocations]
    /\ UNCHANGED <<extVars, cbVars, calc, now, config, arch, rpc, attempt, lastErr,
                   timer, rres, outs, nwaits, waitStart, waitEnd>>

\* ---- time passes while Do waits (the timer may fire a little late)
RetryTick ==
    /\ rpc = "select"
    /\ now < MaxClock
    /\ now <= timer
    /\ now' = now + 1
    /\ UNCHANGED <<extVars, cbVars, calc, rtVars>>

\* ---------------------------------------------------------- ConfigWatcher
\* What the file can hold: two configurations that load and validate, one
\* that loads but fails Validate (port 99999), and text that does not parse.
ConfigA == "valid A"
ConfigB == "valid B"
ConfigBadPort == "port out of range"
ConfigGarbage == "not yaml"
FileContents == {ConfigA, ConfigB, ConfigBadPort, ConfigGarbage}

ErrAlreadyRunning == "watcher is already running"
ErrParse == "failed to parse config file"
ErrValidate == "server port must be between 1 and 65535"

\* LoadFromFile followed by Validate: the configuration, or the error
LoadAndValidate(content) ==
    CASE content = ConfigGarbage -> [cfg |-> Nil, err |-> ErrParse]
      [] content = ConfigBadPort -> [cfg |-> Nil, err |-> ErrValidate]
      [] OTHER                   -> [cfg |-> content, err |-> Nil]

\* reloadConfig, updating and notifying before it has looked at the errors
reloadConfigUnchecked(content) ==
    [err |-> LoadAndValidate(content).err,
     cwConfig |-> content,
     cbCalls |-> Append(cbCalls, content)]

\* reloadConfig (config.go:278-299): a load or validation error returns
\* before anything is touched
reloadConfig(content) ==
    LET l == LoadAndValidate(content)
    IN  IF l.err # Nil
        THEN [err |-> l.err, cwConfig |-> cwConfig, cbCalls |-> cbCalls]
        ELSE [err |-> Nil, cwConfig |-> l.cfg,
              cbCalls |-> Append(cbCalls, l.cfg)]

\* Watch, starting a loop whether or not one is running
alreadyRunningNever == FALSE

\* the test of cw.running in Watch (config.go:233)
alreadyRunning == running

WatcherEvent(op, i, err) ==
    [op |-> op, loop |-> i, err |-> err, running |-> running,
     nloops |-> Len(loops), cwConfig |-> cwConfig, ncalls |-> Len(cbCalls),
     content |-> file.content, changed |-> FALSE]

\* ---- Watch
Watch ==
    /\ nwatch < MaxWatchCalls
    /\ nwatch' = nwatch + 1
    /\ IF alreadyRunning
       THEN /\ wev' = WatcherEvent("Watch", 0, ErrAlreadyRunning)
            /\ UNCHANGED <<running, loops>>
       ELSE /\ running' = TRUE
            /\ loops' = Append(loops, [pc |-> "start", lastModTime |-> ZeroTime])
            /\ wev' = WatcherEvent("Watch", 0, Nil)
    /\ UNCHANGED <<cancelled, cwConfig, file, cbCalls>>
    /\ UNCHANGED <<cbVars, now, rtVars, calc, prVars, te, cmVars, colVars, ucVars,
                   dvVars, pf, rmVars>>

\* ---- Stop
Stop ==
    /\ nwatch < MaxWatchCalls
    /\ nwatch' = nwatch + 1
    /\ IF running
       THEN cancelled' = TRUE /\ running' = FALSE
       ELSE UNCHANGED <<cancelled, running>>
    /\ wev' = WatcherEvent("Stop", 0, Nil)
    /\ UNCHANGED <<loops, cwConfig, file, cbCalls>>
    /\ UNCHANGED <<cbVars, now, rtVars, calc, prVars, te, cmVars, colVars, ucVars,
                   dvVars, pf, rmVars>>

\* ---- watchLoop begins: the ticker is made and the file's modification
\*      time taken, if the file is there
LoopStart(i) ==
    /\ i \in DOMAIN loops
    /\ loops[i].pc = "start"
    /\ loops' = [loops EXCEPT ![i] =
                   [pc |-> "select",
                    lastModTime |-> IF file.exists THEN file.modTime
                                    ELSE ZeroTime]]
    /\ wev' = WatcherEvent("start", i, Nil)
    /\ UNCHANGED <<running, cancelled, cwConfig, file, cbCalls, nwatch>>
    /\ UNCHANGED <<cbVars, now, rtVars, calc, prVars, te, cmVars, colVars, ucVars,
                   dvVars, pf, rmVars>>

\* ---- the select takes the ticker's case: one pass of the loop body
LoopTick(i) ==
    /\ i \in DOMAIN loops
    /\ loops[i].pc = "select"
    /\ IF file.exists /\ file.modTime > loops[i].lastModTime
       THEN LET r == reloadConfig(file.content)
            IN  /\ loops' = [loops EXCEPT ![i].lastModTime = file.modTime]
                /\ cwConfig' = r.cwConfig
                /\ cbCalls' = r.cbCalls
                /\ wev' = [WatcherEvent("tick", i, r.err) EXCEPT !.changed = TRUE]
       ELSE /\ wev' = WatcherEvent("tick", i, Nil)
            /\ UNCHANGED <<loops, cwConfig, cbCalls>>
    /\ UNCHANGED <<running, cancelled, file, nwatch>>
    /\ UNCHANGED <<cbVars, now, rtVars, calc, prVars, te, cmVars, colVars, ucVars,
                   dvVars, pf, rmVars>>

\* ---- the select takes the cw.ctx.Done() case: the loop returns
LoopExit(i) ==
    /\ i \in DOMAIN loops
    /\ loops[i].pc = "select"
    /\ cancelled
    /\ loops' = [loops EXCEPT ![i].pc = "exited"]
    /\ wev' = WatcherEvent("exit", i, Nil)
    /\ UNCHANGED <<running, cancelled, cwConfig, file, cbCalls, nwatch>>
    /\ UNCHANGED <<cbVars, now, rtVars, calc, prVars, te, cmVars, colVars, ucVars,
                   dvVars, pf, rmVars>>

\* ---- somebody writes the file; its modification time may stay within
\*      the same tick of the file system's clock
FileWrite(content, later) ==
    /\ file.modTime + later <= MaxModTime
    /\ file' = [exists |-> TRUE, content |-> content,
                modTime |-> file.modTime + later]
    /\ wev' = WatcherEvent("write", 0, Nil)
    /\ UNCHANGED <<running, cancelled, loops, cwConfig, cbCalls, nwatch>>
    /\ UNCHANGED <<cbVars, now, rtVars, calc, prVars, te, cmVars, colVars, ucVars,
                   dvVars, pf, rmVars>>

\* -------------------------------------------------------- ResourceManager
ResourceIDs == {"resource-1", "resource-2", "resource-3"}

\* a CleanupFunc: one that returns nil, one that returns an error, or none
CleanupOK == "returns nil"
CleanupFails == "returns an error"
CleanupNil == "nil func"
CleanupFuncs == {CleanupOK, CleanupFails, CleanupNil}

NoStats == [totalResources |-> 0, cleanedResources |-> 0, failedCleanups |-> 0]
NoCall == [pc |-> "idle", id |-> "", cleanup |-> CleanupNil, loaded |-> 0]

ErrNotFound(id) == <<"resource not found", id>>
ErrCleanupFailed(id) == <<"cleanup failed for resource", id>>

\* the orders in which `range rm.resources` can go through the ids of S
Orders(S) ==
    {o \in [1..Cardinality(S) -> S] : \A i, j \in DOMAIN o : i # j => o[i] # o[j]}

\* the part of the order CleanupAll's loop goes through, were it to stop at
\* the first cleanup that fails
rangedUntilFailure(order) ==
    LET fails == {i \in DOMAIN order : resources[order[i]] = CleanupFails}
    IN  IF fails = {} THEN order
        ELSE SubSeq(order, 1, CHOOSE i \in fails : \A j \in fails : i <= j)

\* the part of the order CleanupAll's loop goes through (cleanup.go:175):
\* all of it
ranged(order) == order

ManagerEvent(op, id, errs) ==
    [op |-> op, id |-> id, errors |-> errs, resources |-> resources,
     stats |-> stats, invoked |-> invoked]

\* what one cleanup adds to the counters
Counted(st, cleanup) ==
    CASE cleanup = CleanupOK ->
            [st EXCEPT !.cleanedResources = st.cleanedResources + 1]
      [] cleanup = CleanupFails ->
            [st EXCEPT !.failedCleanups = st.failedCleanups + 1]
      [] OTHER -> st

rmRest == <<cbVars, now, rtVars, calc, prVars, te, cmVars, colVars, ucVars, dvVars,
            pf, cwVars>>

\* ---- RegisterResource: an id already there is overwritten
RegisterResource(id, cleanup) ==
    /\ nrm < MaxManagerCalls
    /\ nrm' = nrm + 1
    /\ resources' = [i \in DOMAIN resources \cup {id} |->
                       IF i = id THEN cleanup ELSE resources[i]]
    /\ stats' = [stats EXCEPT !.totalResources = stats.totalResources + 1]
    /\ rmev' = ManagerEvent("RegisterResource", id, <<>>)
    /\ UNCHANGED <<rmRest, invoked, rmcall>>

\* ---- UnregisterResource
UnregisterResource(id) ==
    /\ nrm < MaxManagerCalls
    /\ nrm' = nrm + 1
    /\ IF id \notin DOMAIN resources
       THEN /\ rmev' = ManagerEvent("UnregisterResource", id, <<ErrNotFound(id)>>)
            /\ UNCHANGED <<resources, stats, invoked>>
       ELSE /\ stats' = Counted(stats, resources[id])
            /\ invoked' = IF resources[id] # CleanupNil
                          THEN [invoked EXCEPT ![id] = invoked[id] + 1]
                          ELSE invoked
            /\ resources' = [i \in DOMAIN resources \ {id} |-> resources[i]]
            /\ rmev' = ManagerEvent("UnregisterResource", id,
                                    IF resources[id] = CleanupFails
                                    THEN <<ErrCleanupFailed(id)>> ELSE <<>>)
    /\ UNCHANGED <<rmRest, rmcall>>

\* ---- CleanupResource looks the resource up under the read lock
CleanupResourceLookup(id) ==
    /\ nrm < MaxManagerCalls
    /\ rmcall.pc = "idle"
    /\ nrm' = nrm + 1
    /\ IF id \notin DOMAIN resources
       THEN /\ rmev' = ManagerEvent("CleanupResource", id, <<ErrNotFound(id)>>)
            /\ UNCHANGED rmcall
       ELSE /\ rmcall' = [pc |-> "found", id |-> id, cleanup |-> resources[id],
                          loaded |-> 0]
            /\ rmev' = ManagerEvent("lookup", id, <<>>)
    /\ UNCHANGED <<rmRest, resources, stats, invoked>>

\* ---- CleanupResource, no lock held, calls the cleanup and reads the
\*      counter it is about to increment
CleanupResourceRun ==
    /\ rmcall.pc = "found"
    /\ invoked' = IF rmcall.cleanup # CleanupNil
                  THEN [invoked EXCEPT ![rmcall.id] = invoked[rmcall.id] + 1]
                  ELSE invoked
    /\ rmcall' = [rmcall EXCEPT !.pc = "loaded",
                                !.loaded = IF rmcall.cleanup = CleanupOK
                                           THEN stats.cleanedResources
                                           ELSE stats.failedCleanups]
    /\ rmev' = ManagerEvent("run", rmcall.id, <<>>)
    /\ UNCHANGED <<rmRest, resources, stats, nrm>>

\* ---- CleanupResource, still with no lock held, writes the counter back
\*      and returns
CleanupResourceStore ==
    /\ rmcall.pc = "loaded"
    /\ stats' =
         CASE rmcall.cleanup = CleanupOK ->
                [stats EXCEPT !.cleanedResources = rmcall.loaded + 1]
           [] rmcall.cleanup = CleanupFails ->
                [stats EXCEPT !.failedCleanups = rmcall.loaded + 1]
           [] OTHER -> stats
    /\ rmcall' = NoCall
    /\ rmev' = ManagerEvent("CleanupResource", rmcall.id,
                            IF rmcall.cleanup = CleanupFails
                            THEN <<ErrCleanupFailed(rmcall.id)>> ELSE <<>>)
    /\ UNCHANGED <<rmRest, resources, invoked, nrm>>

RECURSIVE CountedAll(_, _)
\* the counters after the cleanups of the resources in order
CountedAll(st, order) ==
    IF order = <<>> THEN st
    ELSE CountedAll(Counted(st, resources[Head(order)]), Tail(order))

\* ---- CleanupAll, under the write lock from beginning to end
CleanupAll ==
    /\ nrm < MaxManagerCalls
    /\ nrm' = nrm + 1
    /\ \E order \in Orders(DOMAIN resources) :
         LET done == ranged(order)
             ids == {done[i] : i \in DOMAIN done}
         IN  /\ invoked' = [i \in ResourceIDs |->
                              IF i \in ids /\ resources[i] # CleanupNil
                              THEN invoked[i] + 1 ELSE invoked[i]]
             /\ stats' = CountedAll(stats, done)
             /\ rmev' = ManagerEvent("CleanupAll", "",
                     [i \in DOMAIN SelectSeq(done, LAMBDA x : resources[x] = CleanupFails) |->
                        ErrCleanupFailed(SelectSeq(done, LAMBDA x : resources[x] = CleanupFails)[i])])
    /\ resources' = <<>>
    /\ UNCHANGED <<rmRest, rmcall>>

\* ------------------------------------------------------------ DoWithValue
\* what fn can return as its value; ZeroValue is the zero value of T
ZeroValue == ""
Values == {ZeroValue, "v1"}

\* the select of lines 170-175
SelectValue(w) ==
    IF w = "ctx"
    THEN [rpc |-> "done", rres |-> RetryCancelled(ctxErr), returns |-> TRUE]
    ELSE [rpc |-> "call", rres |-> NoResult, returns |-> FALSE]

\* the loop body after fn returned (res, err), dropping the attempt's value
\* when the loop ends
AfterCallValueDropped(v, err) ==
    IF err = Nil
    THEN [rpc |-> "done", attempt |-> attempt, lastErr |-> lastErr,
          result |-> result, rres |-> Success, vret |-> v]
    ELSE IF ~ShouldRetry(err) \/ LastAttempt(attempt)
         THEN [rpc |-> "done", attempt |-> attempt, lastErr |-> err,
               result |-> result, rres |-> MaxAttemptsExceeded(err),
               vret |-> result]
         ELSE [rpc |-> "loop", attempt |-> attempt + 1, lastErr |-> err,
               result |-> v, rres |-> NoResult, vret |-> vret]

\* the loop body after fn returned (res, err) (lines 178-197)
AfterCallValue(v, err) ==
    IF err = Nil
    THEN [rpc |-> "done", attempt |-> attempt, lastErr |-> lastErr,
          result |-> result, rres |-> Success, vret |-> v]
    ELSE IF ~ShouldRetry(err) \/ LastAttempt(attempt)
         THEN [rpc |-> "done", attempt |-> attempt, lastErr |-> err,
               result |-> v, rres |-> MaxAttemptsExceeded(err), vret |-> v]
         ELSE [rpc |-> "loop", attempt |-> attempt + 1, lastErr |-> err,
               result |-> v, rres |-> NoResult, vret |-> vret]

dvRest == <<cbVars, calc, te, prVars, cmVars, colVars, ucVars, pf, cwVars, rmVars>>

\* ---- the loop head (lines 162-176, 197)
DoWithValueLoop ==
    /\ rpc = "loop"
    /\ IF attempt < config.MaxAttempts
       THEN IF attempt > 0
            THEN \E jitter \in Jitters(calculateDelay(attempt)) :
                   LET delay == Wrap(calculateDelay(attempt) + jitter)
                   IN  /\ rpc' = "select"
                       /\ timer' = now + (IF delay > 0 THEN delay ELSE 0)
                       /\ waitStart' = now
                       /\ woken' \in IF ctxErr = Nil THEN {"none"}
                                     ELSE IF delay <= 0 THEN {"ctx", "timer"}
                                     ELSE {"ctx"}
                       /\ UNCHANGED <<rres, vret>>
            ELSE /\ rpc' = "call"
                 /\ UNCHANGED <<rres, vret, timer, woken, waitStart>>
       ELSE /\ rpc' = "done"
            /\ rres' = MaxAttemptsExceeded(lastErr)
            /\ vret' = result
            /\ UNCHANGED <<timer, woken, waitStart>>
    /\ UNCHANGED <<dvRest, now, config, arch, attempt, lastErr, ctxErr, outs,
                   nwaits, waitEnd, cancelAt, result, lastVal>>

\* ---- the woken select runs its case
DoWithValueSelect ==
    /\ rpc = "select"
    /\ woken # "none"
    /\ LET s == SelectValue(woken)
       IN  /\ rpc' = s.rpc
           /\ rres' = s.rres
           /\ vret' = IF s.returns THEN result ELSE vret
           /\ nwaits' = IF s.rpc = "call" THEN nwaits + 1 ELSE nwaits
           /\ waitEnd' = IF s.rpc = "call" THEN now ELSE waitEnd
    /\ woken' = "none"
    /\ UNCHANGED <<dvRest, now, config, arch, attempt, lastErr, timer, ctxErr,
                   outs, waitStart, cancelAt, result, lastVal>>

\* ---- fn returns (v, err) and the rest of the loop body runs
DoWithValueCall(v, err) ==
    /\ rpc = "call"
    /\ outs' = Append(outs, err)
    /\ lastVal' = v
    /\ LET s == AfterCallValue(v, err)
       IN  /\ rpc' = s.rpc
           /\ attempt' = s.attempt
           /\ lastErr' = s.lastErr
           /\ result' = s.result
           /\ rres' = s.rres
           /\ vret' = s.vret
    /\ UNCHANGED <<dvRest, now, config, arch, timer, woken, ctxErr, nwaits,
                   waitStart, waitEnd, cancelAt>>

\* ---- calculateDelay applied to one attempt number
CalcDelay ==
    /\ ~calc.done
    /\ calc' = [calc EXCEPT !.delay = calculateDelay(calc.attempt), !.done = TRUE]
    /\ UNCHANGED <<extVars, cbVars, now, rtVars>>

\* ------------------------------------------------ the transient-error predicate
\* A string is the sequence of its characters; an error is nil or carries
\* its message (err.Error()).
NilError == [nil |-> TRUE, text |-> <<>>]
NewError(s) == [nil |-> FALSE, text |-> s]

UpperRunes ==
    <<"A", "B", "C", "D", "E", "F", "G", "H", "I", "J", "K", "L", "M",
      "N", "O", "P", "Q", "R", "S", "T", "U", "V", "W", "X", "Y", "Z">>
LowerRunes ==
    <<"a", "b", "c", "d", "e", "f", "g", "h", "i", "j", "k", "l", "m",
      "n", "o", "p", "q", "r", "s", "t", "u", "v", "w", "x", "y", "z">>

\* r + ('a' - 'A') for r in 'A'..'Z', r otherwise
toLowerRune(r) ==
    IF \E i \in 1..Len(UpperRunes) : UpperRunes[i] = r
    THEN LowerRunes[CHOOSE i \in 1..Len(UpperRunes) : UpperRunes[i] = r]
    ELSE r

\* toLower
toLower(s) == [i \in 1..Len(s) |-> toLowerRune(s[i])]

\* s[lo:hi] of Go: the characters at offsets lo .. hi-1
Slice(s, lo, hi) == SubSeq(s, lo + 1, hi)

\* contains: equality, prefix and suffix are compared as written; only the
\* scan, which starts at offset 1, compares the lowered strings
contains(s, substr) ==
    /\ Len(s) >= Len(substr)
    /\ \/ s = substr
       \/ Len(substr) = 0
       \/ /\ Len(s) > Len(substr)
          /\ \/ Slice(s, 0, Len(substr)) = substr
             \/ Slice(s, Len(s) - Len(substr), Len(s)) = substr
             \/ LET sLower == toLower(s)
                    substrLower == toLower(substr)
                IN  \E i \in 1..(Len(sLower) - Len(substrLower)) :
                      Slice(sLower, i, i + Len(substrLower)) = substrLower

\* "timeout"
PatTimeout ==
    <<"t", "i", "m", "e", "o", "u", "t">>
\* "connection refused"
PatConnectionRefused ==
    <<"c", "o", "n", "n", "e", "c", "t", "i", "o", "n", " ", "r", "e", "f",
      "u", "s", "e", "d">>
\* "temporary failure"
PatTemporaryFailure ==
    <<"t", "e", "m", "p", "o", "r", "a", "r", "y", " ", "f", "a", "i", "l",
      "u", "r", "e">>
\* "rate limited"
PatRateLimited ==
    <<"r", "a", "t", "e", " ", "l", "i", "m", "i", "t", "e", "d">>
\* "service unavailable"
PatServiceUnavailable ==
    <<"s", "e", "r", "v", "i", "c", "e", " ", "u", "n", "a", "v", "a", "i",
      "l", "a", "b", "l", "e">>
\* "network is unreachable"
PatNetworkUnreachable ==
    <<"n", "e", "t", "w", "o", "r", "k", " ", "i", "s", " ", "u", "n", "r",
      "e", "a", "c", "h", "a", "b", "l", "e">>
\* "no route to host"
PatNoRouteToHost ==
    <<"n", "o", " ", "r", "o", "u", "t", "e", " ", "t", "o", " ", "h", "o",
      "s", "t">>
\* "connection reset"
PatConnectionReset ==
    <<"c", "o", "n", "n", "e", "c", "t", "i", "o", "n", " ", "r", "e", "s",
      "e", "t">>
\* "connection timed out"
PatConnectionTimedOut ==
    <<"c", "o", "n", "n", "e", "c", "t", "i", "o", "n", " ", "t", "i", "m",
      "e", "d", " ", "o", "u", "t">>
\* "deadline exceeded"
PatDeadlineExceeded ==
    <<"d", "e", "a", "d", "l", "i", "n", "e", " ", "e", "x", "c", "e", "e",
      "d", "e", "d">>
\* "resource temporarily unavailable"
PatResourceUnavailable ==
    <<"r", "e", "s", "o", "u", "r", "c", "e", " ", "t", "e", "m", "p", "o",
      "r", "a", "r", "i", "l", "y", " ", "u", "n", "a", "v", "a", "i", "l",
      "a", "b", "l", "e">>

transientPatterns ==
    <<PatTimeout, PatConnectionRefused, PatTemporaryFailure, PatRateLimited,
      PatServiceUnavailable, PatNetworkUnreachable, PatNoRouteToHost,
      PatConnectionReset, PatConnectionTimedOut, PatDeadlineExceeded,
      PatResourceUnavailable>>

\* IsTransientError
IsTransientError(err) ==
    IF err.nil THEN FALSE
    ELSE \E k \in 1..Len(transientPatterns) :
           contains(err.text, transientPatterns[k])

\* ---- messages the predicate is applied to

\* "operation timed out"
MsgOperationTimedOut ==
    <<"o", "p", "e", "r", "a", "t", "i", "o", "n", " ", "t", "i", "m", "e",
      "d", " ", "o", "u", "t">>
\* "permanent failure"
MsgPermanentFailure ==
    <<"p", "e", "r", "m", "a", "n", "e", "n", "t", " ", "f", "a", "i", "l",
      "u", "r", "e">>
\* "invalid input"
MsgInvalidInput ==
    <<"i", "n", "v", "a", "l", "i", "d", " ", "i", "n", "p", "u", "t">>
\* "findmnt command timed out after 5s"
MsgFindmntTimedOut ==
    <<"f", "i", "n", "d", "m", "n", "t", " ", "c", "o", "m", "m", "a", "n",
      "d", " ", "t", "i", "m", "e", "d", " ", "o", "u", "t", " ", "a", "f",
      "t", "e", "r", " ", "5", "s">>
\* "findmnt command failed: exit status 32"
MsgFindmntExit32 ==
    <<"f", "i", "n", "d", "m", "n", "t", " ", "c", "o", "m", "m", "a", "n",
      "d", " ", "f", "a", "i", "l", "e", "d", ":", " ", "e", "x", "i", "t",
      " ", "s", "t", "a", "t", "u", "s", " ", "3", "2">>
\* "findmnt command failed: fork/exec /usr/bin/findmnt: resource temporarily unavailable"
MsgFindmntForkFailed ==
    <<"f", "i", "n", "d", "m", "n", "t", " ", "c", "o", "m", "m", "a", "n",
      "d", " ", "f", "a", "i", "l", "e", "d", ":", " ", "f", "o", "r", "k",
      "/", "e", "x", "e", "c", " ", "/", "u", "s", "r", "/", "b", "i", "n",
      "/", "f", "i", "n", "d", "m", "n", "t", ":", " ", "r", "e", "s", "o",
      "u", "r", "c", "e", " ", "t", "e", "m", "p", "o", "r", "a", "r", "i",
      "l", "y", " ", "u", "n", "a", "v", "a", "i", "l", "a", "b", "l", "e">>
\* "findmnt command failed: context canceled"
MsgFindmntCanceled ==
    <<"f", "i", "n", "d", "m", "n", "t", " ", "c", "o", "m", "m", "a", "n",
      "d", " ", "f", "a", "i", "l", "e", "d", ":", " ", "c", "o", "n", "t",
      "e", "x", "t", " ", "c", "a", "n", "c", "e", "l", "e", "d">>
\* "findmnt command failed: signal: killed"
MsgFindmntKilled ==
    <<"f", "i", "n", "d", "m", "n", "t", " ", "c", "o", "m", "m", "a", "n",
      "d", " ", "f", "a", "i", "l", "e", "d", ":", " ", "s", "i", "g", "n",
      "a", "l", ":", " ", "k", "i", "l", "l", "e", "d">>
\* "dial: "
MsgHead ==
    <<"d", "i", "a", "l", ":", " ">>
\* " (retrying)"
MsgTail ==
    <<" ", "(", "r", "e", "t", "r", "y", "i", "n", "g", ")">>

toUpperRune(r) ==
    IF \E i \in 1..Len(LowerRunes) : LowerRunes[i] = r
    THEN UpperRunes[CHOOSE i \in 1..Len(LowerRunes) : LowerRunes[i] = r]
    ELSE r
ToUpper(s) == [i \in 1..Len(s) |-> toUpperRune(s[i])]
Capitalised(s) == [i \in 1..Len(s) |-> IF i = 1 THEN toUpperRune(s[i]) ELSE s[i]]

\* a pattern as written, in capitals and with a capital first letter
Spellings(s) == {s, ToUpper(s), Capitalised(s)}
\* a text as the whole message, at its start, at its end and in its middle
Placements(s) == {s, s \o MsgTail, MsgHead \o s, MsgHead \o s \o MsgTail}

PatternMessages ==
    UNION { Placements(v) :
            v \in UNION { Spellings(transientPatterns[k]) :
                          k \in 1..Len(transientPatterns) } }

OtherMessages ==
    {MsgOperationTimedOut, MsgPermanentFailure, MsgInvalidInput,
     MsgFindmntTimedOut, MsgFindmntExit32, MsgFindmntForkFailed,
     MsgHead \o MsgTail}

TransientInputs ==
    {NilError} \cup { NewError(s) : s \in PatternMessages \cup OtherMessages }

\* ---- IsTransientError applied to one error
ApplyIsTransient ==
    /\ ~te.done
    /\ te' = [te EXCEPT !.result = IsTransientError(te.err), !.done = TRUE]
    /\ UNCHANGED teRest

\* ------------------------------------------------------- the probe executor
\* FindmntWrapper (part_003:362-515).  Durations are counted in units of
\* 100 ms.  The caller Prober runs CheckMountPoint with its retry loop in
\* full; the other caller is a concurrent CheckMountPoint of which only the
\* steps on the shared breaker are kept.
MountStatusUnknown == "unknown"
MountStatusMounted == "mounted"
MountStatusNotMounted == "not_mounted"

WrapperMaxFailures == 5
WrapperResetTimeout == 600
WrapperMaxAttempts == 3
WrapperInitialDelay == 1
WrapperMaxDelay == 50

Prober == "p1"

ErrWrapperOpen ==
    "circuit breaker is open - findmnt commands are temporarily disabled"
ErrFindmntTimedOut == "findmnt command timed out after 5s"
ErrFindmntExit32 == "findmnt command failed: exit status 32"
ErrFindmntForkFailed ==
    "findmnt command failed: fork/exec /usr/bin/findmnt: resource temporarily unavailable"

\* the command was not started, or was killed, because ctx was cancelled
ErrFindmntCanceled == "findmnt command failed: context canceled"
ErrFindmntKilled == "findmnt command failed: signal: killed"

FindmntErrs ==
    {ErrFindmntTimedOut, ErrFindmntExit32, ErrFindmntForkFailed,
     ErrFindmntCanceled, ErrFindmntKilled}

\* err.Error() of the errors an invocation returns
ErrorText(e) ==
    CASE e = ErrFindmntTimedOut   -> MsgFindmntTimedOut
      [] e = ErrFindmntExit32     -> MsgFindmntExit32
      [] e = ErrFindmntForkFailed -> MsgFindmntForkFailed
      [] e = ErrFindmntCanceled   -> MsgFindmntCanceled
      [] e = ErrFindmntKilled     -> MsgFindmntKilled

\* NewFindmntWrapper: the breaker's configuration
WrapperBreakerConfig ==
    [MaxFailures |-> WrapperMaxFailures, ResetTimeout |-> WrapperResetTimeout,
     OnStateChange |-> "empty"]

\* NewFindmntWrapper: the retry policy, with IsTransientError as predicate
WrapperRetryConfig ==
    [MaxAttempts  |-> WrapperMaxAttempts,
     InitialDelay |-> WrapperInitialDelay,
     MaxDelay     |-> WrapperMaxDelay,
     Multiplier   |-> <<2, 1>>,
     Strategy     |-> BackoffStrategyExponential,
     ShouldRetry  |-> { e \in FindmntErrs : IsTransientError(NewError(ErrorText(e))) }]

\* how one run of the findmnt command can end while ctx is not cancelled:
\* "line" is a zero exit whose first output line has text, "blank" a zero
\* exit whose first output line is blank though the output is not
RunOutcomes ==
    {"line", "blank", "empty", "exit1", "deadline", "exit32", "forkfail"}

\* with ctx cancelled, cmd.Output does not start the command ("canceled")
\* or the command it started is killed ("killed")
CmdOutcomes == RunOutcomes \cup {"canceled", "killed"}

\* the context was cancelled while the running invocation was under way
CancelledInCall ==
    cancelAt.phase = "call" /\ cancelAt.calls = Len(outs) + 1

\* the outcomes open to the invocation under way: a context cancelled
\* before the command started leaves one; one cancelled later kills the
\* command unless it had ended already; a context past its deadline makes
\* cmdCtx report the deadline
OutcomesNow ==
    IF ctxErr = Nil THEN RunOutcomes
    ELSE LET stopped == IF ctxErr = ErrDeadlineExceeded THEN "deadline"
                        ELSE IF CancelledInCall THEN "killed" ELSE "canceled"
         IN  IF CancelledInCall THEN RunOutcomes \cup {stopped} ELSE {stopped}

\* the operation handed to Do, with exit code 1 taken for a failure
invokeOnceExitOneFails(o, st) ==
    CASE o = "deadline" -> [err |-> ErrFindmntTimedOut, status |-> st]
      [] o = "exit1"    -> [err |-> ErrFindmntExit32, status |-> st]
      [] o = "exit32"   -> [err |-> ErrFindmntExit32, status |-> st]
      [] o = "forkfail" -> [err |-> ErrFindmntForkFailed, status |-> st]
      [] o = "empty"    -> [err |-> Nil, status |-> MountStatusNotMounted]
      [] o = "line"     -> [err |-> Nil, status |-> MountStatusMounted]
      [] o = "blank"    -> [err |-> Nil, status |-> st]
      [] o = "canceled" -> [err |-> ErrFindmntCanceled, status |-> st]
      [] o = "killed"   -> [err |-> ErrFindmntKilled, status |-> st]

\* the operation handed to Do (part_003:454-514): what it returns and what
\* it leaves in result.Status
invokeOnce(o, st) ==
    CASE o = "deadline" -> [err |-> ErrFindmntTimedOut, status |-> st]
      [] o = "exit1"    -> [err |-> Nil, status |-> MountStatusNotMounted]
      [] o = "exit32"   -> [err |-> ErrFindmntExit32, status |-> st]
      [] o = "forkfail" -> [err |-> ErrFindmntForkFailed, status |-> st]
      [] o = "empty"    -> [err |-> Nil, status |-> MountStatusNotMounted]
      [] o = "line"     -> [err |-> Nil, status |-> MountStatusMounted]
      [] o = "blank"    -> [err |-> Nil, status |-> st]
      [] o = "canceled" -> [err |-> ErrFindmntCanceled, status |-> st]
      [] o = "killed"   -> [err |-> ErrFindmntKilled, status |-> st]

\* CheckMountPoint without its look at the breaker
BreakerOpenNever == FALSE

\* f.circuitBreaker.IsOpen() of CheckMountPoint
BreakerOpenAtCheck == IsOpen

NoCheckResult == [Status |-> "none", Error |-> NoResult]
RejectedResult ==
    [Status |-> MountStatusUnknown,
     Error |-> [kind |-> ErrWrapperOpen, count |-> 0, wraps |-> Nil]]

\* ---- CheckMountPoint begins: an open breaker ends it at once
CheckBegin(p) ==
    /\ pc[p] = "idle"
    /\ began' = [began EXCEPT ![p] = state]
    /\ IF BreakerOpenAtCheck
       THEN /\ res' = IF p = Prober THEN RejectedResult ELSE res
            /\ ev' = Event("precheck", p, FALSE, ErrWrapperOpen)
            /\ pc' = pc
       ELSE /\ res' = IF p = Prober THEN NoCheckResult ELSE res
            /\ pc' = [pc EXCEPT ![p] = "checked"]
            /\ ev' = Event("check", p, TRUE, "none")
    /\ UNCHANGED <<obsVars, maxFailures, resetTimeout, state, failures, lastFailTime,
                   nexec, adm, streak, now, rtVars, calc, auxVars, status, runs>>

\* ---- Execute admits the call: executeFindmnt enters Do
CheckAllow(p) ==
    /\ pc[p] = "checked"
    /\ nexec < MaxExec
    /\ allowRequest(CB)
    /\ pc' = [pc EXCEPT ![p] = "fn"]
    /\ nexec' = nexec + 1
    /\ adm' = [adm EXCEPT ![p] = state]
    /\ ev' = Event("admit", p, TRUE, "none")
    /\ IF p = Prober
       THEN /\ rpc' = "loop"
            /\ rres' = NoResult
            /\ outs' = <<>>
            /\ nwaits' = 0
            /\ status' = MountStatusUnknown
            /\ runs' = <<>>
            /\ UNCHANGED <<config, arch, attempt, lastErr, timer, woken,
                           ctxErr, waitStart, waitEnd, cancelAt>>
       ELSE UNCHANGED <<rtVars, status, runs>>
    /\ UNCHANGED <<obsVars, maxFailures, resetTimeout, state, failures, lastFailTime,
                   streak, now, calc, auxVars, began, res>>

\* ---- Execute refuses the call
CheckReject(p) ==
    /\ pc[p] = "checked"
    /\ nexec < MaxExec
    /\ ~allowRequest(CB)
    /\ nexec' = nexec + 1
    /\ pc' = [pc EXCEPT ![p] = "idle"]
    /\ began' = [began EXCEPT ![p] = "none"]
    /\ res' = IF p = Prober THEN RejectedResult ELSE res
    /\ ev' = Event("reject", p, FALSE, ErrCircuitOpen)
    /\ UNCHANGED <<obsVars, maxFailures, resetTimeout, state, failures, lastFailTime,
                   adm, streak, now, rtVars, calc, auxVars, status, runs>>

\* ---- one run of the command ends and the rest of Do's loop body runs
InvokeFindmnt(o) ==
    /\ pc[Prober] = "fn"
    /\ rpc = "call"
    /\ o \in OutcomesNow
    /\ LET r == invokeOnce(o, status)
           s == AfterCall(r.err)
       IN  /\ outs' = Append(outs, r.err)
           /\ runs' = Append(runs, o)
           /\ status' = r.status
           /\ rpc' = s.rpc
           /\ attempt' = s.attempt
           /\ lastErr' = s.lastErr
           /\ rres' = s.rres
    /\ UNCHANGED <<cbVars, now, calc, auxVars, began, res, config, arch, timer,
                   woken, ctxErr, nwaits, waitStart, waitEnd, cancelAt>>

\* ---- Do has returned: Execute records the outcome and CheckMountPoint
\*      returns its result; the locals of Do are gone
CheckRecord ==
    /\ pc[Prober] = "fn"
    /\ rpc = "done"
    /\ LET success == rres.kind = "ok"
       IN  /\ SetCB(recordResult(CB, success))
           /\ ev' = Event("record", Prober, success,
                          IF success THEN Nil ELSE "error")
           /\ res' = [Status |-> status,
                      Error |-> IF success THEN Success ELSE rres]
    /\ pc' = [pc EXCEPT ![Prober] = "idle"]
    /\ adm' = [adm EXCEPT ![Prober] = "none"]
    /\ began' = [began EXCEPT ![Prober] = "none"]
    /\ attempt' = 0
    /\ lastErr' = Nil
    /\ timer' = 0
    /\ waitStart' = 0
    /\ waitEnd' = 0
    /\ UNCHANGED <<obsVars, maxFailures, resetTimeout, nexec, streak, now, calc, auxVars,
                   status, runs, config, arch, rpc, woken, ctxErr, rres,
                   outs, nwaits, cancelAt>>

\* ---- the other caller's retry loop has returned
OtherRecord(p, success) ==
    /\ p # Prober
    /\ pc[p] = "fn"
    /\ SetCB(recordResult(CB, success))
    /\ pc' = [pc EXCEPT ![p] = "idle"]
    /\ adm' = [adm EXCEPT ![p] = "none"]
    /\ began' = [began EXCEPT ![p] = "none"]
    /\ ev' = Event("record", p, success, IF success THEN Nil ELSE "error")
    /\ UNCHANGED <<obsVars, maxFailures, resetTimeout, nexec, streak, now, rtVars,
                   calc, auxVars, res, status, runs>>

\* ---- the prober's caller makes a new context for its next
\*      CheckMountPoint
FreshContext ==
    /\ pc[Prober] = "idle"
    /\ ctxErr # Nil
    /\ ctxErr' = Nil
    /\ cancelAt' = [phase |-> "none", calls |-> 0]
    /\ UNCHANGED <<cbVars, now, calc, extVars, config, arch, rpc, attempt,
                   lastErr, timer, woken, rres, outs, nwaits, waitStart,
                   waitEnd>>

\* ---- ResetCircuitBreaker
ResetCircuitBreaker ==
    /\ SetCB(ResetCB(CB))
    /\ ev' = Event("reset", "none", TRUE, "none")
    /\ UNCHANGED <<obsVars, maxFailures, resetTimeout, pc, nexec, adm, streak, now,
                   rtVars, calc, extVars>>

\* ---- time passes until the open breaker's reset timeout has elapsed
CoolDown ==
    /\ IsOpen
    /\ ~SinceLastFail(CB)
    /\ lastFailTime + resetTimeout <= MaxProbeClock
    /\ now' = lastFailTime + resetTimeout
    /\ ev' = Event("tick", "none", TRUE, "none")
    /\ UNCHANGED <<obsVars, maxFailures, resetTimeout, state, failures, lastFailTime,
                   pc, nexec, adm, streak, rtVars, calc, extVars>>

\* ---- time passes while the prober's Do waits between attempts
ProbeTick ==
    /\ rpc = "select"
    /\ now < MaxProbeClock
    /\ now <= timer
    /\ now' = now + 1
    /\ UNCHANGED <<cbVars, rtVars, calc, extVars>>

\* ------------------------------------------- parsing the command's output
\* A string is the sequence of its characters.
Space == " "
Tab == "\t"
Newline == "\n"
LineChars == {"a", Space, Tab}
OutputChars == LineChars \cup {Newline}

\* unicode.IsSpace, on the characters of OutputChars
IsSpace(ch) == ch \in {Space, Tab, Newline}

RECURSIVE FirstLine(_)
\* the first token of bufio.ScanLines: the text before the first newline
FirstLine(str) ==
    IF str = <<>> \/ Head(str) = Newline THEN <<>>
    ELSE <<Head(str)>> \o FirstLine(Tail(str))

RECURSIVE TrimLeft(_)
TrimLeft(str) ==
    IF str # <<>> /\ IsSpace(Head(str)) THEN TrimLeft(Tail(str)) ELSE str

RECURSIVE TrimRight(_)
TrimRight(str) ==
    IF str # <<>> /\ IsSpace(str[Len(str)])
    THEN TrimRight(SubSeq(str, 1, Len(str) - 1))
    ELSE str

\* strings.TrimSpace
TrimSpace(str) == TrimRight(TrimLeft(str))

RECURSIVE SplitFrom(_, _, _)
\* strings.Split(str, sep) for a one-character sep; cur is the field begun
SplitFrom(str, sep, cur) ==
    IF str = <<>> THEN <<cur>>
    ELSE IF Head(str) = sep THEN <<cur>> \o SplitFrom(Tail(str), sep, <<>>)
    ELSE SplitFrom(Tail(str), sep, Append(cur, Head(str)))

Split(str, sep) == SplitFrom(str, sep, <<>>)

RECURSIVE Join(_, _)
\* strings.Join(elems, sep)
Join(elems, sep) ==
    IF elems = <<>> THEN <<>>
    ELSE IF Len(elems) = 1 THEN elems[1]
    ELSE elems[1] \o <<sep>> \o Join(Tail(elems), sep)

\* the attributes of a FindmntResult the parse fills in
EmptyResult ==
    [Status |-> MountStatusUnknown, Target |-> <<>>, FSType |-> <<>>,
     Options |-> <<>>, Source |-> <<>>]

\* lines 494-508: the fields of the line assigned by position
parseFields(line, r) ==
    LET fields == Split(line, Space)
    IN  [r EXCEPT !.Status = MountStatusMounted,
                  !.Target = fields[1],
                  !.FSType = IF Len(fields) >= 2 THEN fields[2] ELSE r.FSType,
                  !.Options = IF Len(fields) >= 3 THEN fields[3] ELSE r.Options,
                  !.Source = IF Len(fields) >= 4
                             THEN Join(SubSeq(fields, 4, Len(fields)), Space)
                             ELSE r.Source]

\* lines 480-510
parseOutput(outputStr, r) ==
    IF Len(TrimSpace(outputStr)) = 0
    THEN [r EXCEPT !.Status = MountStatusNotMounted]
    ELSE LET line == TrimSpace(FirstLine(outputStr))
         IN  IF line # <<>> THEN parseFields(line, r) ELSE r

\* ---- the output of a zero-exit run is parsed
ParseOutput ==
    /\ ~pf.done
    /\ pf' = [pf EXCEPT !.result = parseOutput(pf.output, pf.result),
                        !.done = TRUE]
    /\ UNCHANGED <<cbVars, now, rtVars, calc, prVars, te, cmVars, colVars, ucVars,
                   dvVars, cwVars, rmVars>>

\* ------------------------------------------------------------- bulk check
\* CheckMultipleMountPoints (part_003:518-557).  Slot and task k stand for
\* Go's index k-1.
TargetNames == {"/", "/tmp"}

\* how a task's CheckMountPoint can end: status and error of its result
ProbeEnds ==
    { [Status |-> MountStatusMounted, Error |-> Nil],
      [Status |-> MountStatusNotMounted, Error |-> Nil],
      [Status |-> MountStatusUnknown, Error |-> "error"],
      \* a first output line that is blank: nil is returned, no status set
      [Status |-> MountStatusUnknown, Error |-> Nil] }

\* the FindmntResult of a CheckMountPoint on mp that ended as e
ProbeResult(mp, e) ==
    [MountPoint |-> mp, Status |-> e.Status, Error |-> e.Error]

ProbeResults(mp) == { ProbeResult(mp, e) : e \in ProbeEnds }

\* results[j] == nil
NilSlot == [MountPoint |-> "", Status |-> "nil", Error |-> Nil]

ErrContextCancelled == "context cancelled"

\* the result written for a slot when the context is done
CancelledResult(mp) ==
    [MountPoint |-> mp, Status |-> MountStatusUnknown,
     Error |-> ErrContextCancelled]

\* the loop of lines 545-553 over j = i .. len(mountPoints)-1
FillFrom(i) ==
    [j \in DOMAIN results |->
        IF j > i /\ results[j] = NilSlot
        THEN CancelledResult(mountPoints[j]) ELSE results[j]]

\* ---- the slots and the channel are made and one goroutine per target
\*      is started
ManyStart ==
    /\ mpc = "start"
    /\ results' = [j \in 1..Len(mountPoints) |-> NilSlot]
    /\ resultChan' = <<>>
    /\ task' = [k \in 1..Len(mountPoints) |-> "run"]
    /\ mi' = 0
    /\ mpc' = IF Len(mountPoints) = 0 THEN "returned" ELSE "loop"
    /\ UNCHANGED <<cmRest, mountPoints, mctx>>

\* the capacity of resultChan, had its buffer been made one place short
resultChanCapOneShort == Len(mountPoints) - 1

\* the capacity of resultChan (line 520-523): one place per target
resultChanCap == Len(mountPoints)

\* ---- goroutine k: CheckMountPoint returns and the result is sent, which
\*      takes a free place in the channel's buffer
TaskSend(k, e) ==
    /\ mpc # "start"
    /\ k \in DOMAIN task
    /\ task[k] = "run"
    /\ Len(resultChan) < resultChanCap
    /\ resultChan' = Append(resultChan,
                            [index |-> k,
                             result |-> ProbeResult(mountPoints[k], e)])
    /\ task' = [task EXCEPT ![k] = "sent"]
    /\ UNCHANGED <<cmRest, mountPoints, mi,
                   results, mctx, mpc>>

\* ---- the select takes a result from the channel
ManyReceive ==
    /\ mpc = "loop"
    /\ resultChan # <<>>
    /\ LET res0 == Head(resultChan)
       IN  results' = [results EXCEPT ![res0.index] = res0.result]
    /\ resultChan' = Tail(resultChan)
    /\ mi' = mi + 1
    /\ mpc' = IF mi + 1 = Len(mountPoints) THEN "returned" ELSE "loop"
    /\ UNCHANGED <<cmRest, mountPoints, task,
                   mctx>>

\* ---- the select takes ctx.Done(): the slots from i on are filled and
\*      the call returns
ManyDone ==
    /\ mpc = "loop"
    /\ mctx # Nil
    /\ results' = FillFrom(mi)
    /\ mpc' = "returned"
    /\ UNCHANGED <<cmRest, mountPoints, task,
                   resultChan, mi, mctx>>

\* ---- the caller cancels the context
ManyCancel ==
    /\ mctx = Nil
    /\ mctx' = ErrCanceled
    /\ UNCHANGED <<cmRest, mountPoints, task,
                   resultChan, mi, results, mpc>>

\* ------------------------------------------------------ collection cycle
\* Collector.Collect (metrics/collector_test.go:408-489)
MetricStatus == "mount_point_status"
MetricScrapeDuration == "scrape_duration_seconds"
MetricScrapeSuccess == "scrape_success_total"
MetricUp == "up"
MetricTotalDuration == "total_scrape_duration_seconds"

Metric(name, mp, value, errorMsg) ==
    [name |-> name, mount_point |-> mp, value |-> value, error |-> errorMsg]

\* value and error label of a target's status metric (lines 424-437)
StatusMetric(r) ==
    IF r.Error # Nil
    THEN Metric(MetricStatus, r.MountPoint, 0, r.Error)
    ELSE CASE r.Status = MountStatusMounted ->
                Metric(MetricStatus, r.MountPoint, 1, "")
           [] r.Status = MountStatusNotMounted ->
                Metric(MetricStatus, r.MountPoint, 0, "")
           [] OTHER ->
                Metric(MetricStatus, r.MountPoint, 0, "unknown status")

\* the metrics one target adds to ch (lines 443-467); durations are not
\* modelled
TargetMetrics(r) ==
    <<StatusMetric(r), Metric(MetricScrapeDuration, r.MountPoint, 0, "")>>
    \o IF r.Error = Nil
       THEN <<Metric(MetricScrapeSuccess, r.MountPoint, 1, "")>>
       ELSE <<>>

\* healthy after a target, as the health of the last target alone
healthyOfLast(h, r) == IF r.Error # Nil THEN 0 ELSE 1

\* healthy after a target with result r (lines 424-425)
healthyAfter(h, r) == IF r.Error # Nil THEN 0 ELSE h

\* ---- one turn of the loop: the target is probed and its metrics are sent
CollectTarget(e) ==
    /\ cpc = "loop"
    /\ ci < Len(cfgMountPoints)
    /\ LET r == ProbeResult(cfgMountPoints[ci + 1], e)
       IN  /\ healthy' = healthyAfter(healthy, r)
           /\ metricCh' = metricCh \o TargetMetrics(r)
           /\ probed' = Append(probed, r)
    /\ ci' = ci + 1
    /\ UNCHANGED <<colRest, cfgMountPoints, cpc>>

\* ---- after the loop: the health and total-duration metrics are sent
CollectFinish ==
    /\ cpc = "loop"
    /\ ci = Len(cfgMountPoints)
    /\ metricCh' = metricCh \o <<Metric(MetricUp, "", healthy, ""),
                                 Metric(MetricTotalDuration, "", 0, "")>>
    /\ cpc' = "done"
    /\ UNCHANGED <<colRest, cfgMountPoints, ci, healthy, probed>>

\* --------------------------------------------- the collector and its lock
\* Collector (collector_test.go:354-503).  Collect holds the read lock of
\* c.mu from its first line to its return; UpdateConfig holds the write
\* lock.  A loop turn's CheckMountPoint is taken as a whole: the collector
\* calls it on one goroutine, one target after the other.
ucRest == <<now, rtVars, calc, prVars, te, cmVars, dvVars, pf, cwVars, rmVars>>

ucRestOfBreaker == <<maxFailures, resetTimeout, pc, nexec, adm, streak, obsVars>>

\* c.mu.Lock() proceeds without waiting for the readers
muLockIgnored == TRUE

\* c.mu.Lock() can proceed: no read lock is held
muLockFree == cMu = 0

\* the result of CheckMountPoint on mp: turned away by the open breaker, or
\* ended as e after its command was invoked
checkMountPoint(mp, e) ==
    IF BreakerOpenAtCheck \/ ~allowRequest(CB)
    THEN [MountPoint |-> mp, Status |-> MountStatusUnknown,
          Error |-> ErrWrapperOpen]
    ELSE ProbeResult(mp, e)

\* ---- Collect is called: the read lock is taken, the range expression
\*      c.config.MountPoints is evaluated
CollectBegin ==
    /\ cpc = "idle"
    /\ cMu' = cMu + 1
    /\ cfgMountPoints' = cConfig
    /\ ci' = 0
    /\ healthy' = 1
    /\ metricCh' = <<>>
    /\ probed' = <<>>
    /\ cpc' = "loop"
    /\ cycle' = [config |-> cConfig, findmnt |-> cFindmnt, used |-> {}]
    /\ UNCHANGED <<cbVars, ucRest, cConfig, cFindmnt, updates>>

\* ---- one turn of the loop, with c.findmnt.CheckMountPoint and what it
\*      does to the wrapper's breaker
CollectCheckMountPoint(e) ==
    /\ cpc = "loop"
    /\ ci < Len(cfgMountPoints)
    /\ LET r == checkMountPoint(cfgMountPoints[ci + 1], e)
       IN  /\ healthy' = healthyAfter(healthy, r)
           /\ metricCh' = metricCh \o TargetMetrics(r)
           /\ probed' = Append(probed, r)
           /\ IF r.Error = ErrWrapperOpen
              THEN /\ ev' = Event("precheck", "collector", FALSE, ErrWrapperOpen)
                   /\ UNCHANGED <<state, failures, lastFailTime>>
              ELSE /\ SetCB(recordResult(CB, e.Error = Nil))
                   /\ ev' = Event("record", "collector", e.Error = Nil,
                                  IF e.Error = Nil THEN Nil ELSE "error")
    /\ ci' = ci + 1
    /\ cycle' = [cycle EXCEPT !.used = @ \cup {cFindmnt}]
    /\ UNCHANGED <<ucRestOfBreaker, ucRest, cfgMountPoints, cpc, cMu,
                   cConfig, cFindmnt, updates>>

\* ---- Collect returns: the deferred RUnlock
CollectReturn ==
    /\ cpc = "done"
    /\ cMu > 0
    /\ cMu' = cMu - 1
    /\ cpc' = "idle"
    /\ UNCHANGED <<cbVars, ucRest, cfgMountPoints, ci, healthy, metricCh,
                   probed, cConfig, cFindmnt, updates, cycle>>

\* ---- UpdateConfig(cfg): under the write lock the configuration is
\*      replaced and a new wrapper, with a new breaker, is built
UpdateConfig(cfg) ==
    /\ updates < MaxUpdates
    /\ muLockFree
    /\ cConfig' = cfg
    /\ cFindmnt' = cFindmnt + 1
    /\ updates' = updates + 1
    /\ SetCB(NewCircuitBreaker(WrapperBreakerConfig))
    /\ ev' = Event("update", "collector", TRUE, "none")
    /\ UNCHANGED <<ucRestOfBreaker, ucRest, colVars, cMu, cycle>>

\* ---- the time between two scrapes passes
ScrapeInterval ==
    /\ cpc = "idle"
    /\ now + WrapperResetTimeout <= MaxProbeClock
    /\ now' = now + WrapperResetTimeout
    /\ UNCHANGED <<cbVars, rtVars, calc, extVars>>

\* ------------------------------------------------------------ specifications
Configs ==
    [MaxFailures : 0..MaxThreshold, ResetTimeout : 1..MaxResetTimeout,
     OnStateChange : {Nil}]

\* breakers with an observer: one failure opens them
ObservedConfigs ==
    [MaxFailures : {1}, ResetTimeout : {1}, OnStateChange : {"observer"}]

\* a breaker none of whose methods is called
IdleBreakerConfig ==
    [MaxFailures |-> 0, ResetTimeout |-> 0, OnStateChange |-> Nil]

CBStart(config0) ==
    LET c == NewCircuitBreaker(config0)
    IN  /\ maxFailures = c.maxFailures
        /\ resetTimeout = c.resetTimeout
        /\ state = c.state
        /\ failures = c.failures
        /\ lastFailTime = c.lastFailTime
        /\ onStateChange = c.onStateChange
        /\ pending = EmptyBag
        /\ mu = "free"
        /\ callbacks = <<>>
        /\ panicked = FALSE
        /\ pc = [p \in Procs |-> "idle"]
        /\ nexec = 0
        /\ adm = [p \in Procs |-> "none"]
        /\ streak = 0
        /\ ev = [op |-> "new", p |-> "none", ok |-> TRUE, ret |-> "none",
                 from |-> StateClosed, failures |-> 0,
                 lastFailTime |-> ZeroTime, elapsed |-> TRUE, adm |-> "none"]

\* a Do call about to begin under policy config0
DoStart(config0, arch0, pc0) ==
    /\ config = config0
    /\ arch = arch0
    /\ rpc = pc0
    /\ attempt = 0
    /\ lastErr = Nil
    /\ timer = 0
    /\ woken = "none"
    /\ ctxErr = Nil
    /\ rres = NoResult
    /\ outs = <<>>
    /\ nwaits = 0
    /\ waitStart = 0
    /\ waitEnd = 0
    /\ cancelAt = [phase |-> "none", calls |-> 0]

CalcStart(a, done) == calc = [attempt |-> a, delay |-> 0, done |-> done]

TransientStart(err, done) == te = [err |-> err, result |-> FALSE, done |-> done]

\* no CheckMountPoint has been called yet
ProbeStart ==
    /\ began = [p \in Procs |-> "none"]
    /\ status = MountStatusUnknown
    /\ res = NoCheckResult
    /\ runs = <<>>

\* a CheckMultipleMountPoints call on the targets mps, about to begin
ManyCall(mps, pc0) ==
    /\ mountPoints = mps
    /\ task = <<>>
    /\ resultChan = <<>>
    /\ mi = 0
    /\ results = <<>>
    /\ mctx = Nil
    /\ mpc = pc0

\* a Collect call on the configured targets mps, about to begin
CollectCall(mps, pc0) ==
    /\ cfgMountPoints = mps
    /\ ci = 0
    /\ healthy = 1
    /\ metricCh = <<>>
    /\ probed = <<>>
    /\ cpc = pc0

\* NewResourceManager
ManagerStart ==
    /\ resources = <<>>
    /\ stats = NoStats
    /\ invoked = [i \in ResourceIDs |-> 0]
    /\ rmcall = NoCall
    /\ nrm = 0
    /\ rmev = [op |-> "new", id |-> "", errors |-> <<>>, resources |-> <<>>,
               stats |-> NoStats, invoked |-> [i \in ResourceIDs |-> 0]]

\* NewConfigWatcher on a file holding the configuration it was given
WatcherStart(content) ==
    /\ running = FALSE
    /\ cancelled = FALSE
    /\ loops = <<>>
    /\ cwConfig = content
    /\ file = [exists |-> TRUE, content |-> content, modTime |-> 0]
    /\ cbCalls = <<>>
    /\ nwatch = 0
    /\ wev = [op |-> "new", loop |-> 0, err |-> Nil, running |-> FALSE,
              nloops |-> 0, cwConfig |-> content, ncalls |-> 0,
              content |-> content, changed |-> FALSE]

WatcherIdle == WatcherStart(ConfigA)

\* the output outputStr about to be parsed (done: already parsed)
ParseStart(outputStr, done) ==
    pf = [output |-> outputStr, result |-> EmptyResult, done |-> done]

\* a DoWithValue call about to begin, or none
ValueStart == result = ZeroValue /\ vret = ZeroValue /\ lastVal = ZeroValue

\* NewCollector on a configuration with the targets mps; readers is 1
\* when a Collect call holds its read lock already
CollectorStart(mps, readers) ==
    /\ cMu = readers
    /\ cConfig = mps
    /\ cFindmnt = 0
    /\ updates = 0
    /\ cycle = [config |-> mps, findmnt |-> 0, used |-> {}]

CollectorIdle == CollectorStart(<<>>, 0)

MoreIdle ==
    /\ ValueStart /\ ParseStart(<<>>, TRUE) /\ WatcherIdle /\ ManagerStart
    /\ CollectorIdle

\* the components a specification does not exercise, at rest
AuxIdle ==
    /\ MoreIdle
    /\ TransientStart(NilError, TRUE)
    /\ ManyCall(<<>>, "returned")
    /\ CollectCall(<<>>, "done")

ExtIdle ==
    /\ AuxIdle
    /\ ProbeStart

SomeConfig == CHOOSE c \in RetryConfigs : TRUE
SomeArch == CHOOSE a \in Archs : TRUE

\* callers of one circuit breaker
Init ==
    /\ \E config0 \in Configs : CBStart(config0)
    /\ DoStart(SomeConfig, SomeArch, "done")
    /\ CalcStart(1, TRUE)
    /\ ExtIdle
    /\ now = 0

Next ==
    \/ \E p \in Procs : ExecAllow(p)
    \/ \E p \in Procs : ExecReject(p)
    \/ \E p \in Procs : \E success \in BOOLEAN : ExecRecord(p, success)
    \/ Reset
    \/ Tick

Spec == Init /\ [][Next]_vars

\* one caller of a circuit breaker that has an observer; the observer's
\* goroutines may take any time to return, or never return
ObservedInit ==
    /\ \E config0 \in ObservedConfigs : CBStart(config0)
    /\ DoStart(SomeConfig, SomeArch, "done")
    /\ CalcStart(1, TRUE)
    /\ ExtIdle
    /\ now = 0

ObservedNext ==
    \/ ExecAllow(Prober)
    \/ ExecReject(Prober)
    \/ \E success \in BOOLEAN : ExecRecord(Prober, success)
    \/ Reset
    \/ Tick
    \/ \E n \in Notifications : ObserverReturns(n)
    \/ \E n \in Notifications : ObserverPanics(n)

ObservedSpec == ObservedInit /\ [][ObservedNext]_vars

\* the breaker of TestCircuitBreaker_StateChangeCallback: two failures open
\* it and the observer appends each call to a slice
RecorderConfig ==
    [MaxFailures |-> 2, ResetTimeout |-> 1, OnStateChange |-> "recorder"]

\* one caller of that breaker, making Execute calls that fail or succeed
CallbackInit ==
    /\ CBStart(RecorderConfig)
    /\ DoStart(SomeConfig, SomeArch, "done")
    /\ CalcStart(1, TRUE)
    /\ ExtIdle
    /\ now = 0

CallbackNext ==
    \/ ExecAllow(Prober)
    \/ ExecReject(Prober)
    \/ \E success \in BOOLEAN : ExecRecord(Prober, success)
    \/ Tick
    \/ \E n \in Notifications : ObserverReturns(n)

CallbackSpec == CallbackInit /\ [][CallbackNext]_vars

\* one Do call, under every policy and on every build
RetryInit ==
    /\ CBStart(IdleBreakerConfig)
    /\ \E config0 \in RetryConfigs : \E arch0 \in Archs :
         DoStart(config0, arch0, "loop")
    /\ CalcStart(1, TRUE)
    /\ ExtIdle
    /\ now = 0

RetryNext ==
    \/ DoLoop
    \/ TimerFires
    \/ DoSelect
    \/ \E err \in OpErrs \cup {Nil} : DoCall(err)
    \/ \E cause \in {ErrCanceled, ErrDeadlineExceeded} : Cancel(cause)
    \/ RetryTick

RetrySpec == RetryInit /\ [][RetryNext]_vars

\* calculateDelay, for every policy, build and attempt number
DelayInit ==
    /\ CBStart(IdleBreakerConfig)
    /\ \E config0 \in RetryConfigs : \E arch0 \in Archs :
         DoStart(config0, arch0, "done")
    /\ \E a \in 1..MaxAttemptArg : CalcStart(a, FALSE)
    /\ ExtIdle
    /\ now = 0

DelayNext == CalcDelay

DelaySpec == DelayInit /\ [][DelayNext]_vars

\* the policies with the shortest cap on the delay
ValueConfigs == {c \in RetryConfigs : c.MaxDelay = 1 /\ c.Multiplier = <<3, 2>>}

\* one DoWithValue call, under these policies and on every build
ValueInit ==
    /\ CBStart(IdleBreakerConfig)
    /\ \E config0 \in ValueConfigs : \E arch0 \in Archs :
         DoStart(config0, arch0, "loop")
    /\ CalcStart(1, TRUE)
    /\ ExtIdle
    /\ now = 0

ValueNext ==
    \/ DoWithValueLoop
    \/ TimerFires
    \/ DoWithValueSelect
    \/ \E v \in Values : \E err \in OpErrs \cup {Nil} : DoWithValueCall(v, err)
    \/ \E cause \in {ErrCanceled, ErrDeadlineExceeded} : Cancel(cause)
    \/ RetryTick

ValueSpec == ValueInit /\ [][ValueNext]_vars

\* the one-line outputs of up to MaxLineLen characters, and the outputs of
\* up to MaxOutputLen characters with line ends in them
Outputs ==
    UNION {[1..n -> LineChars] : n \in 0..MaxLineLen}
    \cup UNION {[1..n -> OutputChars] : n \in 0..MaxOutputLen}

\* the parse, for every such output
ParseInit ==
    /\ CBStart(IdleBreakerConfig)
    /\ DoStart(SomeConfig, SomeArch, "done")
    /\ CalcStart(1, TRUE)
    /\ TransientStart(NilError, TRUE)
    /\ ManyCall(<<>>, "returned")
    /\ CollectCall(<<>>, "done")
    /\ ProbeStart
    /\ ValueStart
    /\ WatcherIdle
    /\ ManagerStart
    /\ CollectorIdle
    /\ \E outputStr \in Outputs : ParseStart(outputStr, FALSE)
    /\ now = 0

ParseNext == ParseOutput

ParseSpec == ParseInit /\ [][ParseNext]_vars

\* a watcher with one callback, its callers and the writers of its file
WatchInit ==
    /\ CBStart(IdleBreakerConfig)
    /\ DoStart(SomeConfig, SomeArch, "done")
    /\ CalcStart(1, TRUE)
    /\ TransientStart(NilError, TRUE)
    /\ ManyCall(<<>>, "returned")
    /\ CollectCall(<<>>, "done")
    /\ ProbeStart
    /\ ValueStart
    /\ ParseStart(<<>>, TRUE)
    /\ ManagerStart
    /\ CollectorIdle
    /\ WatcherStart(ConfigA)
    /\ now = 0

WatchNext ==
    \/ Watch
    \/ Stop
    \/ \E i \in 1..MaxWatchCalls : LoopStart(i)
    \/ \E i \in 1..MaxWatchCalls : LoopTick(i)
    \/ \E i \in 1..MaxWatchCalls : LoopExit(i)
    \/ \E content \in FileContents : \E later \in {0, 1} : FileWrite(content, later)

WatchSpec == WatchInit /\ [][WatchNext]_vars

\* callers of one resource manager
ManagerInit ==
    /\ CBStart(IdleBreakerConfig)
    /\ DoStart(SomeConfig, SomeArch, "done")
    /\ CalcStart(1, TRUE)
    /\ TransientStart(NilError, TRUE)
    /\ ManyCall(<<>>, "returned")
    /\ CollectCall(<<>>, "done")
    /\ ProbeStart
    /\ ValueStart
    /\ ParseStart(<<>>, TRUE)
    /\ WatcherIdle
    /\ ManagerStart
    /\ CollectorIdle
    /\ now = 0

ManagerNext ==
    \/ \E id \in ResourceIDs : \E cleanup \in CleanupFuncs : RegisterResource(id, cleanup)
    \/ \E id \in ResourceIDs : UnregisterResource(id)
    \/ \E id \in ResourceIDs : CleanupResourceLookup(id)
    \/ CleanupResourceRun
    \/ CleanupResourceStore
    \/ CleanupAll

ManagerSpec == ManagerInit /\ [][ManagerNext]_vars

\* IsTransientError, for every message of TransientInputs
TransientInit ==
    /\ CBStart(IdleBreakerConfig)
    /\ DoStart(SomeConfig, SomeArch, "done")
    /\ CalcStart(1, TRUE)
    /\ \E err \in TransientInputs : TransientStart(err, FALSE)
    /\ ManyCall(<<>>, "returned")
    /\ CollectCall(<<>>, "done")
    /\ ProbeStart
    /\ MoreIdle
    /\ now = 0

TransientNext == ApplyIsTransient

TransientSpec == TransientInit /\ [][TransientNext]_vars

\* two callers of one FindmntWrapper, as NewFindmntWrapper builds it
ProbeInit ==
    /\ CBStart(WrapperBreakerConfig)
    /\ DoStart(WrapperRetryConfig, SomeArch, "done")
    /\ CalcStart(1, TRUE)
    /\ AuxIdle
    /\ ProbeStart
    /\ now = 0

ProbeNext ==
    \/ \E p \in Procs : CheckBegin(p)
    \/ \E p \in Procs : CheckAllow(p)
    \/ \E p \in Procs : CheckReject(p)
    \/ DoLoop
    \/ TimerFires
    \/ DoSelect
    \/ \E o \in CmdOutcomes : InvokeFindmnt(o)
    \/ CheckRecord
    \/ \E p \in Procs : \E success \in BOOLEAN : OtherRecord(p, success)
    \/ ResetCircuitBreaker
    \/ CoolDown
    \/ ProbeTick

ProbeSpec == ProbeInit /\ [][ProbeNext]_vars

\* CheckMountPoint calls of one caller whose context can be cancelled while
\* the call is under way; each call begins with a context not cancelled yet
AbortNext ==
    \/ ctxErr = Nil /\ CheckBegin(Prober)
    \/ CheckAllow(Prober)
    \/ DoLoop
    \/ TimerFires
    \/ DoSelect
    \/ \E o \in CmdOutcomes : InvokeFindmnt(o)
    \/ CheckRecord
    \/ Cancel(ErrCanceled)
    \/ FreshContext
    \/ ProbeTick

AbortSpec == ProbeInit /\ [][AbortNext]_vars

\* one CheckMultipleMountPoints call, for every list of up to MaxTargets
\* targets
TargetLists ==
    UNION { [1..n -> TargetNames] : n \in 0..MaxTargets }

ManyInit ==
    /\ CBStart(WrapperBreakerConfig)
    /\ DoStart(WrapperRetryConfig, SomeArch, "done")
    /\ CalcStart(1, TRUE)
    /\ MoreIdle
    /\ TransientStart(NilError, TRUE)
    /\ ProbeStart
    /\ \E mps \in TargetLists : ManyCall(mps, "start")
    /\ CollectCall(<<>>, "done")
    /\ now = 0

ManyNext ==
    \/ ManyStart
    \/ \E k \in 1..MaxTargets : \E e \in ProbeEnds : TaskSend(k, e)
    \/ ManyReceive
    \/ ManyDone
    \/ ManyCancel

ManySpec == ManyInit /\ [][ManyNext]_vars

\* one collection cycle, for every list of up to MaxTargets targets
CollectInit ==
    /\ CBStart(WrapperBreakerConfig)
    /\ DoStart(WrapperRetryConfig, SomeArch, "done")
    /\ CalcStart(1, TRUE)
    /\ ValueStart /\ ParseStart(<<>>, TRUE) /\ WatcherIdle /\ ManagerStart
    /\ TransientStart(NilError, TRUE)
    /\ ProbeStart
    /\ ManyCall(<<>>, "returned")
    /\ \E mps \in TargetLists :
         CollectCall(mps, "loop") /\ CollectorStart(mps, 1)
    /\ now = 0

CollectNext ==
    \/ \E e \in ProbeEnds : CollectTarget(e)
    \/ CollectFinish

CollectSpec == CollectInit /\ [][CollectNext]_vars

\* the collector between scrapes and configuration reloads: Collect calls
\* one after the other, UpdateConfig calls at any moment
CollectorLists == {<<"/">>, <<"/", "/tmp">>, <<"/tmp", "/", "/tmp">>}

CollectorInit ==
    /\ CBStart(WrapperBreakerConfig)
    /\ DoStart(WrapperRetryConfig, SomeArch, "done")
    /\ CalcStart(1, TRUE)
    /\ ValueStart /\ ParseStart(<<>>, TRUE) /\ WatcherIdle /\ ManagerStart
    /\ TransientStart(NilError, TRUE)
    /\ ProbeStart
    /\ ManyCall(<<>>, "returned")
    /\ CollectCall(<<>>, "idle")
    /\ \E cfg \in CollectorLists : CollectorStart(cfg, 0)
    /\ now = 0

CollectorNext ==
    \/ CollectBegin
    \/ \E e \in ProbeEnds : CollectCheckMountPoint(e)
    \/ CollectFinish
    \/ CollectReturn
    \/ \E cfg \in CollectorLists : UpdateConfig(cfg)
    \/ ScrapeInterval

CollectorSpec == CollectorInit /\ [][CollectorNext]_vars

\* ================================================================ claims
\* ---------------------------------------------------------------- breaker

\* C1: for every threshold N = maxFailures >= 1, after exactly N failing
\* Execute calls made back to back on a fresh breaker (Closed, 0 failures)
\* the breaker is Open, and an Execute call made then, with less than
\* resetTimeout elapsed, returns the circuit-open error and does not invoke
\* the wrapped operation.
C1_OpenAfterThreshold ==
    /\ maxFailures >= 1
    /\ streak = maxFailures => IsOpen
    /\ ( /\ streak = maxFailures
         /\ ev.op \in {"admit", "reject"}
         /\ ~ev.elapsed )
       => ( /\ ev.op = "reject"
            /\ ev.ret = ErrCircuitOpen
            /\ pc[ev.p] = "idle" )

\* the (N+1)th call of such a run has been made, and was refused
C1_Witness ==
    /\ streak = maxFailures
    /\ maxFailures = MaxThreshold
    /\ ev.op = "reject"
    /\ nexec = maxFailures + 1

\* C2 (as claimed): a call admitted because the breaker had been Open for
\* resetTimeout, with no other call or Reset in between, leaves the breaker
\* Closed with failure counter 0 when its operation succeeds, and Open when
\* it fails.
C2_ProbeClosesOrReopens ==
    ( /\ ev.op = "record"
      /\ ev.adm = StateOpen
      /\ ev.from = StateOpen
      /\ NoneInFlight(Procs) )
    => IF ev.ok THEN IsClosed /\ failures = 0 ELSE IsOpen

\* C3: an Execute call made while the breaker is Open and less than
\* resetTimeout has elapsed since the last failure returns the circuit-open
\* error, does not invoke the operation, and leaves state, failure counter
\* and last-failure timestamp as they were.
C3_RejectLeavesBreakerAlone ==
    /\ ( /\ ev.op \in {"admit", "reject"}
         /\ ev.from = StateOpen
         /\ ~ev.elapsed )
       => ev.op = "reject"
    /\ ev.op = "reject"
       => ( /\ ev.ret = ErrCircuitOpen
            /\ pc[ev.p] = "idle"
            /\ state = ev.from
            /\ failures = ev.failures
            /\ lastFailTime = ev.lastFailTime )

C3_Witness ==
    /\ ev.op = "reject"
    /\ ev.from = StateOpen
    /\ ev.failures >= 1
    /\ \E q \in Procs : pc[q] = "fn"

\* C4: every change of the breaker's state made by a step of an Execute
\* call is one of Closed->Open, Open->HalfOpen, HalfOpen->Closed,
\* HalfOpen->Open.
LegalTransitions ==
    { <<StateClosed, StateOpen>>, <<StateOpen, StateHalfOpen>>,
      <<StateHalfOpen, StateClosed>>, <<StateHalfOpen, StateOpen>> }

C4_LegalTransitionsOnly ==
    ( /\ ev.op \in {"admit", "reject", "record"}
      /\ ev.from # state )
    => <<ev.from, state>> \in LegalTransitions

\* an Open breaker has just been moved on by a successful call
C4_Witness ==
    /\ ev.op = "record"
    /\ ev.ok
    /\ ev.from = StateOpen
    /\ state # StateOpen

\* C5: Reset, in any state and with any failure count, leaves the breaker
\* Closed with failure counter 0 and a cleared last-failure timestamp, so
\* that the next Execute call is admitted.
C5_ResetCloses ==
    ev.op = "reset"
    => ( /\ IsClosed
         /\ failures = 0
         /\ lastFailTime = ZeroTime
         /\ allowRequest(CB) )

C5_Witness ==
    /\ ev.op = "reset"
    /\ ev.from = StateOpen
    /\ ev.failures >= 1
    /\ ~ev.elapsed

\* ------------------------------------------------------------------ retry
Last(s) == s[Len(s)]
Front(s) == SubSeq(s, 1, Len(s) - 1)
Min(a, b) == IF a <= b THEN a ELSE b

\* every invocation in s failed with an error the predicate accepts
AllRetryableFailures(s) ==
    \A i \in 1..Len(s) : s[i] # Nil /\ s[i] \in config.ShouldRetry

\* C6: under an uncancelled context, while the operation has only failed
\* with retryable errors and attempts remain, Do has not returned; once the
\* operation succeeds, on attempt k <= maxAttempts, Do has returned success
\* after exactly k invocations and k-1 waits and does nothing more; and each
\* wait lasted at least the base delay of its attempt.
C6_SuccessAfterRetries ==
    ctxErr = Nil =>
      /\ ( AllRetryableFailures(outs) /\ Len(outs) < config.MaxAttempts )
         => rpc # "done"
      /\ ( /\ outs # <<>>
           /\ Last(outs) = Nil
           /\ AllRetryableFailures(Front(outs)) )
         => ( /\ rpc = "done"
              /\ rres.kind = "ok"
              /\ Len(outs) <= config.MaxAttempts
              /\ Invocations = Len(outs)
              /\ nwaits = Len(outs) - 1 )
      /\ rpc = "call"
         => ( /\ nwaits = attempt
              /\ Len(outs) = attempt
              /\ attempt > 0
                 => waitEnd - waitStart >= calculateDelay(attempt) )

\* Fixed 11, k = 3: three invocations, two waits, at least 22 waited
C6_Witness ==
    /\ rpc = "done"
    /\ rres.kind = "ok"
    /\ ctxErr = Nil
    /\ config.Strategy = BackoffStrategyFixed
    /\ config.InitialDelay = 11
    /\ config.MaxDelay = 22
    /\ Len(outs) = 3
    /\ nwaits = 2
    /\ now >= 22

\* C7: for any maxAttempts >= 1, if the first invocation fails with an
\* error the retryability predicate rejects, Do invokes the operation
\* exactly once, waits never, and returns a failure at once.
C7_NonRetryableStopsAtOnce ==
    ( /\ config.MaxAttempts >= 1
      /\ outs # <<>>
      /\ outs[1] # Nil
      /\ outs[1] \notin config.ShouldRetry )
    => ( /\ rpc = "done"
         /\ Invocations = 1
         /\ nwaits = 0
         /\ rres.kind \notin {"ok", "none"}
         /\ rres.wraps = outs[1] )

C7_Witness ==
    /\ config.MaxAttempts = MaxAttemptsBound
    /\ outs = <<"permanent failure">>
    /\ "permanent failure" \notin config.ShouldRetry
    /\ rpc = "done"

\* C8: when the operation always fails with a retryable error and the
\* context is never cancelled, Do returns only after exactly maxAttempts
\* invocations, with an error that carries the attempt count and wraps the
\* error of the last invocation.
C8_ExhaustionAfterMaxAttempts ==
    ( /\ rpc = "done"
      /\ ctxErr = Nil
      /\ AllRetryableFailures(outs) )
    => ( /\ Invocations = config.MaxAttempts
         /\ rres.kind = "max retry attempts exceeded"
         /\ rres.count = config.MaxAttempts
         /\ rres.wraps = IF outs = <<>> THEN Nil ELSE Last(outs) )

C8_Witness ==
    /\ rpc = "done"
    /\ ctxErr = Nil
    /\ config.MaxAttempts = MaxAttemptsBound
    /\ Len(outs) = MaxAttemptsBound
    /\ AllRetryableFailures(outs)
    /\ outs[1] # Last(outs)

\* C9: if the context is cancelled while Do waits between attempts, before
\* the wait has ended, Do returns the retry-cancelled error wrapping the
\* cancellation cause, and the operation is not invoked again.
C9_CancelledWhileWaiting ==
    cancelAt.phase = "waiting"
    => ( /\ rpc \in {"select", "done"}
         /\ Invocations = cancelAt.calls
         /\ ctxErr \in {ErrCanceled, ErrDeadlineExceeded}
         /\ rpc = "done"
            => ( /\ rres.kind = "retry cancelled"
                 /\ rres.wraps = ctxErr ) )

\* cancelled in the second wait; the timer's instant has passed since
C9_Witness ==
    /\ cancelAt.phase = "waiting"
    /\ rpc = "done"
    /\ Len(outs) = 2
    /\ ctxErr = ErrDeadlineExceeded
    /\ now >= timer

\* C10 (as claimed): for the Exponential strategy with initial delay d,
\* multiplier m and cap M, the base delay of every attempt >= 1 is
\* min(d * m^(attempt-1), M), a fraction of a unit aside.
C10_ExponentialDelay ==
    ( calc.done /\ config.Strategy = BackoffStrategyExponential )
    => calc.delay =
         Min(Trunc(config.InitialDelay * Pow(config.Multiplier[1], calc.attempt - 1),
                   Pow(config.Multiplier[2], calc.attempt - 1)),
             config.MaxDelay)

\* ------------------------------------------------- transient-error predicate
\* the text t occurs in s at some offset, letter case aside
ContainsFold(s, t) ==
    \E i \in 0..(Len(s) - Len(t)) :
        \A k \in 1..Len(t) : toLowerRune(s[i + k]) = toLowerRune(t[k])

\* C20 (as claimed): IsTransientError is true exactly when the message
\* contains one of the known transient substrings, letter case aside and at
\* any position (start, middle, end or the whole message); it is false for
\* a nil error and for every other message.
C20_TransientIffContainsFold ==
    te.done
    => ( te.result
         <=> ( /\ ~te.err.nil
               /\ \E k \in 1..Len(transientPatterns) :
                     ContainsFold(te.err.text, transientPatterns[k]) ) )

\* ----------------------------------------------------------- probe executor
\* C11: when the command reports the not-found exit code, Do returns at
\* once and that run is not retried (a first run that reports it is the
\* Check's only run); the Check returns NotMounted with a nil error, and the
\* breaker records a success: the failure counter is not incremented.
C11_NotFoundIsSuccess ==
    /\ ( runs # <<>> /\ pc[Prober] = "fn" /\ Last(runs) = "exit1" )
       => ( /\ rpc = "done"
            /\ rres = Success
            /\ status = MountStatusNotMounted
            /\ Invocations = Len(runs)
            /\ runs[1] = "exit1" => Len(runs) = 1 )
    /\ ( /\ ev.op = "record"
          /\ ev.p = Prober
          /\ runs # <<>>
          /\ Last(runs) = "exit1" )
       => ( /\ ev.ok
            /\ res.Status = MountStatusNotMounted
            /\ res.Error = Success
            /\ failures <= ev.failures
            /\ failures = 0
            /\ runs[1] = "exit1" => Len(runs) = 1 /\ nwaits = 0 )

\* a not-found Check returned while the breaker counted four failures
C11_Witness ==
    /\ ev.op = "record"
    /\ ev.p = Prober
    /\ runs = <<"exit1">>
    /\ ev.failures = WrapperMaxFailures - 1
    /\ res.Status = MountStatusNotMounted
    /\ failures = 0

\* C12: a Check that finds the breaker open returns at once: it never
\* reaches Execute or the command, its result has status Unknown and the
\* circuit-open error, and state, failure counter and last-failure
\* timestamp of the breaker are as they were.
C12_OpenBreakerRejectsCheck ==
    /\ \A p \in Procs : began[p] = StateOpen => pc[p] = "idle"
    /\ ev.op \in {"precheck", "reject"}
       => ( /\ ev.from = StateOpen
            /\ pc[ev.p] = "idle"
            /\ state = ev.from
            /\ failures = ev.failures
            /\ lastFailTime = ev.lastFailTime
            /\ ev.p = Prober
               => ( /\ res.Status = MountStatusUnknown
                    /\ res.Error.kind = ErrWrapperOpen
                    /\ rpc = "done" ) )

\* the prober, whose earlier Check had failed, is turned away
C12_Witness ==
    /\ ev.op = "precheck"
    /\ ev.p = Prober
    /\ began[Prober] = StateOpen
    /\ ev.failures = WrapperMaxFailures
    /\ runs # <<>>
    /\ res = RejectedResult

\* C13 (as claimed): a run of the command that exceeds its deadline yields
\* the timeout error, which is retried: when every run of a Check times
\* out, Do returns only after maxAttempts runs, and the result has status
\* Unknown and a non-nil error.
C13_TimeoutIsRetried ==
    ( /\ runs # <<>>
      /\ \A i \in 1..Len(runs) : runs[i] = "deadline" )
    => ( /\ \A i \in 1..Len(outs) : outs[i] = ErrFindmntTimedOut
         /\ status = MountStatusUnknown
         /\ rpc = "done" => Len(runs) = config.MaxAttempts
         /\ ( ev.op = "record" /\ ev.p = Prober )
            => res.Status = MountStatusUnknown /\ res.Error # Success )

\* C18 (as claimed): once resetTimeout has elapsed since the last failure
\* of an open breaker that has not been reset, a Check is not turned away:
\* it goes on to invoke the command.
C18_CheckAfterCoolDownProbes ==
    ( ev.op = "precheck" /\ ev.from = StateOpen ) => ~ev.elapsed

\* --------------------------------------------------------------- bulk check
\* slot j holds what task j sent, or what the cancellation branch writes
SlotFor(j) ==
    \/ results[j] \in ProbeResults(mountPoints[j])
    \/ results[j] = CancelledResult(mountPoints[j])

\* C14 (as claimed): the list CheckMany returns has exactly one slot per
\* target, and slot i holds the result for targets[i], for every i and
\* whatever the order in which the tasks complete.
C14_SlotPerTargetInOrder ==
    mpc = "returned"
    => ( /\ Len(results) = Len(mountPoints)
         /\ \A j \in 1..Len(mountPoints) :
              /\ results[j] # NilSlot
              /\ results[j].MountPoint = mountPoints[j]
              /\ SlotFor(j) )

\* C15 (as claimed): when the context is cancelled before every task has
\* delivered, CheckMany returns without waiting for the tasks, and every
\* slot whose task's result had not been received holds status Unknown and
\* the cancellation error; no slot is left empty, whichever tasks had
\* delivered.
C15_CancelFillsEverySlot ==
    ( mpc = "returned" /\ mi < Len(mountPoints) )
    => ( /\ mctx # Nil
         /\ \A j \in 1..Len(mountPoints) :
              \/ results[j] \in ProbeResults(mountPoints[j])
              \/ /\ results[j].Status = MountStatusUnknown
                 /\ results[j].Error = ErrContextCancelled )

\* --------------------------------------------------------- collection cycle
IsStatus(m) == m.name = MetricStatus
IsUp(m) == m.name = MetricUp
StatusEntries == SelectSeq(metricCh, IsStatus)
UpEntries == SelectSeq(metricCh, IsUp)

\* C16: for every list of configured targets, the empty one included, a
\* collection cycle sends exactly one status entry per target, in
\* configuration order and each the entry of that target's result; a
\* target's error does not end the loop; and the health flag sent is 1
\* exactly when no target's result carries an error (1 for no targets).
C16_OneEntryPerTarget ==
    /\ Len(StatusEntries) = ci
    /\ Len(probed) = ci
    /\ \A j \in 1..ci :
         /\ StatusEntries[j].mount_point = cfgMountPoints[j]
         /\ StatusEntries[j] = StatusMetric(probed[j])
         /\ probed[j].MountPoint = cfgMountPoints[j]
    /\ ci < Len(cfgMountPoints) => cpc = "loop"
    /\ Len(UpEntries) = IF cpc = "done" THEN 1 ELSE 0
    /\ cpc = "done"
       => ( /\ ci = Len(cfgMountPoints)
            /\ UpEntries[1].value \in {0, 1}
            /\ UpEntries[1].value = 1
               <=> \A j \in 1..Len(probed) : probed[j].Error = Nil )

\* three targets, the first of which failed and the last of which did not
C16_Witness ==
    /\ cpc = "done"
    /\ Len(cfgMountPoints) = 3
    /\ probed[1].Error # Nil
    /\ probed[3].Error = Nil
    /\ UpEntries[1].value = 0

\* ------------------------------------------------- claims C17, C19
\* C17: Execute and Reset never wait for the state-change observer: however
\* many observer goroutines are still running, the breaker's lock is free,
\* every invoked operation's result can be recorded (the Execute call
\* completes), and a later Execute or Reset can take its step at once.
C17_ObserverNeverBlocks ==
    (onStateChange = "observer" /\ ~panicked) =>
        /\ mu = "free"
        /\ \A p \in Procs : pc[p] = "fn" =>
              \A success \in BOOLEAN : ENABLED ExecRecord(p, success)
        /\ (pc[Prober] = "idle" /\ nexec < MaxExec) =>
              ENABLED (ExecAllow(Prober) \/ ExecReject(Prober))
        /\ ENABLED Reset

\* three observers (Closed->Open, Open->HalfOpen, HalfOpen->Closed) are still
\* running and the Execute that started the last of them has completed
C17_Witness ==
    /\ BagCardinality(pending) = 3
    /\ BagIn([from |-> StateClosed, to |-> StateOpen], pending)
    /\ BagIn([from |-> StateOpen, to |-> StateHalfOpen], pending)
    /\ BagIn([from |-> StateHalfOpen, to |-> StateClosed], pending)
    /\ ev.op = "record"
    /\ pc[Prober] = "idle"

\* the callers whose operation is in flight after being admitted by an Open
\* breaker whose reset timeout had elapsed
Probing == {p \in Procs : pc[p] = "fn" /\ adm[p] = StateOpen}

\* C19: after the reset timeout has elapsed on an Open breaker exactly one
\* Execute call is admitted as the probing attempt: no second caller's
\* operation is invoked while the first probing operation is in flight.
C19_SingleProbe == Cardinality(Probing) <= 1

\* ------------------------------------------- claims C22, C26, C29, C30
ClosedToOpen == [from |-> StateClosed, to |-> StateOpen]
OpenToHalfOpen == [from |-> StateOpen, to |-> StateHalfOpen]
HalfOpenToClosed == [from |-> StateHalfOpen, to |-> StateClosed]

\* a goroutine was started for notification n: it is still to run, or the
\* recorder has been called with it
Started(n) ==
    BagIn(n, pending) \/ \E i \in DOMAIN callbacks : callbacks[i] = n

\* C22: once the breaker has been driven open by threshold failures, one
\* successful Execute after the reset timeout has the observer notified of
\* each of Closed->Open, Open->HalfOpen and HalfOpen->Closed.
C22_ProbeNotifiesThree ==
    (ev.op = "record" /\ ev.ok /\ ev.from = StateOpen /\ ev.elapsed) =>
        /\ Started(ClosedToOpen)
        /\ Started(OpenToHalfOpen)
        /\ Started(HalfOpenToClosed)

\* C26: whenever the breaker has just entered Closed, through a successful
\* HalfOpen probe or through Reset, its failure counter is zero.
C26_ClosedEntryZeroesCounter ==
    (ev.op \in {"record", "reset"} /\ ev.from # StateClosed
        /\ state = StateClosed) => failures = 0

\* a successful probe has just closed a HalfOpen breaker
C26_Witness ==
    /\ ev.op = "record"
    /\ ev.ok
    /\ ev.from = StateHalfOpen
    /\ state = StateClosed

\* C29: a failure inside the observer is swallowed: after it the breaker
\* goes on as if the observer had returned, so a running Execute can record
\* its result and a new Execute or Reset can take its step.
C29_ObserverFailureSwallowed ==
    panicked =>
        /\ \A p \in Procs : pc[p] = "fn" =>
              \A success \in BOOLEAN : ENABLED ExecRecord(p, success)
        /\ (pc[Prober] = "idle" /\ nexec < MaxExec) =>
              ENABLED (ExecAllow(Prober) \/ ExecReject(Prober))
        /\ ENABLED Reset

\* C30: notifications reach the observer in the order of the transitions:
\* the first call is Closed->Open, the first transition of any breaker, and
\* each later call starts in the state the call before it ended in.
C30_DeliveredInOrder ==
    /\ callbacks # <<>> => callbacks[1] = ClosedToOpen
    /\ \A i \in 1..(Len(callbacks) - 1) : callbacks[i + 1].from = callbacks[i].to

\* ------------------------------------------------------------- claim C27
\* C27: the base delay of attempt >= 1 is initial * attempt for the Linear
\* strategy and initial for the Fixed strategy (capped at maxDelay), and for
\* every strategy and every policy the returned delay lies in
\* [0, maxDelay].
C27_DelayWithinCap ==
    calc.done =>
        /\ config.Strategy = BackoffStrategyLinear =>
              calc.delay = Min(config.InitialDelay * calc.attempt, config.MaxDelay)
        /\ config.Strategy = BackoffStrategyFixed =>
              calc.delay = Min(config.InitialDelay, config.MaxDelay)
        /\ 0 <= calc.delay
        /\ calc.delay <= config.MaxDelay

\* ------------------------------------------------------------- claim C21
\* a step of the call, by Do's rules: the loop head ends the loop, invokes
\* fn or starts the wait of calculateDelay plus jitter; the woken select
\* goes on or returns as Do's does; and after fn has returned, the call
\* stops, retries and reports as Do's loop body does.  The value returned
\* with success or with exhaustion is the one the last invocation produced.
StepByDoRules ==
    \/ /\ rpc = "loop"
       /\ UNCHANGED <<attempt, lastErr, outs>>
       /\ IF attempt >= config.MaxAttempts
          THEN /\ rpc' = "done"
               /\ rres' = MaxAttemptsExceeded(lastErr)
               /\ outs # <<>> => vret' = lastVal
          ELSE IF attempt = 0
          THEN rpc' = "call" /\ rres' = rres
          ELSE /\ rpc' = "select"
               /\ rres' = rres
               /\ \E jitter \in Jitters(calculateDelay(attempt)) :
                     LET d == WaitOf(attempt, jitter)
                     IN  timer' = now + (IF d > 0 THEN d ELSE 0)
    \/ /\ rpc = "select"
       /\ woken # "none"
       /\ UNCHANGED <<attempt, lastErr, outs>>
       /\ rpc' = Select(woken).rpc
       /\ rres' = Select(woken).rres
    \/ /\ rpc = "call"
       /\ \E err \in OpErrs \cup {Nil} :
            LET s == AfterCall(err)
            IN  /\ outs' = Append(outs, err)
                /\ rpc' = s.rpc
                /\ attempt' = s.attempt
                /\ lastErr' = s.lastErr
                /\ rres' = s.rres
                /\ s.rpc = "done" => vret' = lastVal'

\* C21: DoWithValue follows the attempt, wait and stop rules of Do, so that
\* for the same outcomes of the operation and the same context it makes
\* the same invocations and returns the same error outcome; on success it
\* returns the value of the successful attempt and on exhaustion the value
\* the last attempt produced.
C21_DoWithValueLikeDo ==
    [][StepByDoRules]_<<rpc, attempt, lastErr, rres, outs, vret>>

\* every attempt failed, and the value of the third came back
C21_Witness ==
    /\ rpc = "done"
    /\ rres.kind = "max retry attempts exceeded"
    /\ Len(outs) = 3
    /\ nwaits = 2
    /\ result = "v1"
    /\ vret = "v1"

\* ------------------------------------------------------------- claim C28
RECURSIVE FieldsFrom(_, _)
\* the whitespace-delimited fields of str; cur is the field begun
FieldsFrom(str, cur) ==
    IF str = <<>> THEN IF cur = <<>> THEN <<>> ELSE <<cur>>
    ELSE IF IsSpace(Head(str))
         THEN (IF cur = <<>> THEN <<>> ELSE <<cur>>) \o FieldsFrom(Tail(str), <<>>)
         ELSE FieldsFrom(Tail(str), Append(cur, Head(str)))

Fields(str) == FieldsFrom(str, <<>>)

\* the i-th of the fields fs, empty when there are fewer
FieldOr(fs, i) == IF Len(fs) >= i THEN fs[i] ELSE <<>>

\* C28: for a zero-exit command whose first output line is non-empty the
\* result is Mounted and the line's whitespace-delimited fields are assigned
\* in order to target, type, options and source, the fields beyond the
\* fourth joined back into the source; fewer than four fields leave the
\* trailing attributes empty, and runs of whitespace between fields do not
\* produce empty fields.
C28_FieldsByPosition ==
    (pf.done /\ Fields(FirstLine(pf.output)) # <<>>) =>
        LET fs == Fields(FirstLine(pf.output))
        IN  /\ pf.result.Status = MountStatusMounted
            /\ pf.result.Target = fs[1]
            /\ pf.result.FSType = FieldOr(fs, 2)
            /\ pf.result.Options = FieldOr(fs, 3)
            /\ pf.result.Source =
                  IF Len(fs) >= 4 THEN Join(SubSeq(fs, 4, Len(fs)), Space) ELSE <<>>

\* ------------------------------------------------------- claims C23, C24
\* C23: Watch on a watcher that is already running returns an error and
\* starts no second watch loop; after Stop, IsRunning() is false.
C23_DoubleStartRefused ==
    /\ (wev.op = "Watch" /\ wev.running) =>
          /\ wev.err = ErrAlreadyRunning
          /\ Len(loops) = wev.nloops
          /\ running
    /\ wev.op = "Stop" => ~running

\* a second Watch was refused with the first loop at work
C23_Witness ==
    /\ wev.op = "Watch"
    /\ wev.running
    /\ wev.err = ErrAlreadyRunning
    /\ Len(loops) = 1
    /\ loops[1].pc = "select"

\* C24: when the changed file fails to load or fails validation the reload
\* is rejected: no callback is started, the watcher's configuration is
\* unchanged, and the loop goes on watching, with the rejected file's
\* modification time as the one to compare later changes with.
C24_RejectedReload ==
    (wev.op = "tick" /\ wev.changed /\ wev.content \in {ConfigBadPort, ConfigGarbage}) =>
        /\ wev.err # Nil
        /\ Len(cbCalls) = wev.ncalls
        /\ cwConfig = wev.cwConfig
        /\ loops[wev.loop].pc = "select"
        /\ loops[wev.loop].lastModTime = file.modTime

\* an invalid file was seen and rejected after a valid reload
C24_Witness ==
    /\ wev.op = "tick"
    /\ wev.changed
    /\ wev.content = ConfigBadPort
    /\ wev.err = ErrValidate
    /\ cwConfig = ConfigB
    /\ cbCalls = <<ConfigB>>

\* ------------------------------------------------------------- claim C25
\* the ids registered before the last step with a cleanup of the given kind
RegisteredAs(cleanup) ==
    {id \in DOMAIN rmev.resources : rmev.resources[id] = cleanup}

\* C25: CleanupAll invokes the cleanup function of every registered
\* resource exactly once, goes on past cleanups that fail, returns exactly
\* one error per failed cleanup, leaves the registry empty, and increases
\* cleaned_resources and failed_cleanups by the numbers of successful and
\* failed cleanups.
C25_CleanupAllCleansAll ==
    rmev.op = "CleanupAll" =>
        /\ \A id \in ResourceIDs :
              invoked[id] = rmev.invoked[id] +
                  (IF id \in RegisteredAs(CleanupOK) \cup RegisteredAs(CleanupFails)
                   THEN 1 ELSE 0)
        /\ Len(rmev.errors) = Cardinality(RegisteredAs(CleanupFails))
        /\ {rmev.errors[i] : i \in DOMAIN rmev.errors} =
              {ErrCleanupFailed(id) : id \in RegisteredAs(CleanupFails)}
        /\ DOMAIN resources = {}
        /\ stats.cleanedResources =
              rmev.stats.cleanedResources + Cardinality(RegisteredAs(CleanupOK))
        /\ stats.failedCleanups =
              rmev.stats.failedCleanups + Cardinality(RegisteredAs(CleanupFails))
        /\ stats.totalResources = rmev.stats.totalResources

\* CleanupAll has cleaned three resources, one of whose cleanups failed
C25_Witness ==
    /\ rmev.op = "CleanupAll"
    /\ DOMAIN rmev.resources = ResourceIDs
    /\ Cardinality(RegisteredAs(CleanupFails)) = 1
    /\ Cardinality(RegisteredAs(CleanupOK)) = 2
    /\ Len(rmev.errors) = 1
    /\ stats.cleanedResources = 2

\* ------------------------------------------------------------------- C32
\* C32: in every reachable state, under any interleaving of concurrent
\* Execute and Reset calls, a Closed breaker's failure counter is strictly
\* less than maxFailures.
C32_ClosedBelowThreshold ==
    IsClosed => failures < maxFailures

\* a failure has just been recorded on a Closed breaker that stays Closed,
\* one short of the threshold, while another caller's operation is running
C32_Witness ==
    /\ ev.op = "record" /\ ~ev.ok
    /\ ev.from = StateClosed /\ IsClosed
    /\ failures >= 1 /\ failures = maxFailures - 1
    /\ \E q \in Procs : pc[q] = "fn"

\* ------------------------------------------------------------------- C37
\* C37: every task spawned by CheckMany terminates: once its probe has
\* finished it delivers its result without blocking, also when CheckMany
\* has already returned because of cancellation, so no task stays blocked
\* forever.
C37_TaskNeverBlocks ==
    \A k \in DOMAIN task :
        task[k] = "run" => ENABLED (\E e \in ProbeEnds : TaskSend(k, e))

\* CheckMany returned on cancellation with results still outstanding; one
\* task has delivered into the channel nobody reads any more and another is
\* still probing
C37_Witness ==
    /\ mpc = "returned"
    /\ mctx # Nil
    /\ mi < Len(mountPoints)
    /\ resultChan # <<>>
    /\ \E k \in DOMAIN task : task[k] = "sent"
    /\ \E k \in DOMAIN task : task[k] = "run"

\* ------------------------------------------------------------------- C40
\* a watch loop that has not returned
LoopActive(i) == loops[i].pc # "exited"

\* C40: whenever IsRunning() is true a watch loop is active, so that a
\* later valid change of the configuration file is eventually reloaded and
\* delivered to the callbacks; this for every sequence of Watch and Stop
\* calls, Watch called again after Stop included.
C40_RunningMeansWatching ==
    running => \E i \in DOMAIN loops : LoopActive(i)

\* ------------------------------------------------------------------- C34
\* C34: for every retry policy the options can build (any MaxAttempts
\* value), a Do call invokes the operation at least once and at most
\* maxAttempts times before it returns, and returns success only if some
\* invocation succeeded.
C34_InvokedOnceAtLeast ==
    rpc = "done" =>
        /\ Len(outs) >= 1
        /\ Len(outs) <= config.MaxAttempts
        /\ rres.kind = "ok" => \E i \in DOMAIN outs : outs[i] = Nil

\* ------------------------------------------------------------------- C38
\* the prober's last Check failed through the cancellation of its context
\* alone: Do returned from its wait on ctx.Done(), or no run of the command
\* ended otherwise than not started or killed
FailedByCancellationOnly ==
    \/ rres.kind = "retry cancelled"
    \/ /\ runs # <<>>
       /\ \A i \in DOMAIN runs : runs[i] \in {"canceled", "killed"}

\* C38: a probe that fails only because the caller's context was cancelled
\* (before or during the command invocation or the retry wait) does not
\* increment the breaker's failure counter and cannot move the breaker to
\* Open.
C38_CancellationNotCounted ==
    ( /\ ev.op = "record" /\ ev.p = Prober /\ ~ev.ok
      /\ FailedByCancellationOnly )
    => ( failures = ev.failures /\ state = ev.from )

\* ------------------------------------------------------------------- C33
\* C33: a single Check call records exactly one outcome in the breaker, the
\* outcome of its whole retry loop: however many retry attempts it makes,
\* it increments the failure counter by at most one.
C33_OneOutcomePerCheck ==
    ( ev.op = "record" /\ ev.p = Prober )
    => ( /\ ev.ok <=> rres.kind = "ok"
         /\ ev.ok => failures = 0
         /\ ~ev.ok => failures = ev.failures + 1
         /\ pc[Prober] = "idle" )

\* a Check whose three runs of the command all failed has been recorded, on
\* a breaker that had counted a failure before
C33_Witness ==
    /\ ev.op = "record" /\ ev.p = Prober /\ ~ev.ok
    /\ Len(runs) = WrapperMaxAttempts
    /\ \A i \in DOMAIN outs : outs[i] # Nil
    /\ ev.failures >= 1
    /\ failures = ev.failures + 1

\* ------------------------------------------------------------------- C35
\* C35: every result returned by Check is consistent: its status is Unknown
\* if and only if its error is non-nil, so a result without error is always
\* Mounted or NotMounted and a result with an error never reports Mounted
\* or NotMounted.
C35_StatusUnknownIffError ==
    res # NoCheckResult
    => ( res.Status = MountStatusUnknown <=> res.Error # Success )

\* ------------------------------------------------------------------- C31
\* C31: cancellation propagates top-down and never sideways: cancelling the
\* context of a collection or bulk check cancels every in-flight probe and
\* stops its pending retries, while a probe-level timeout on one target
\* ends only that probe's command invocation and never cancels or fails a
\* sibling target's probe.  Checked here for the sibling: a Check of the
\* prober is turned away only after a failed run of its own command.
C31_NoSidewaysFailure ==
    ( ev.op \in {"precheck", "reject"} /\ ev.p = Prober )
    => ( /\ runs # <<>>
         /\ invokeOnce(Last(runs), MountStatusUnknown).err # Nil )

\* ------------------------------------------------------------------- C36
\* C36: probe failures of one target never cause the probe of a different
\* target to be rejected without invoking the command: in a collection
\* cycle every configured target has the external command invoked for it,
\* whatever the outcomes of the other targets.
C36_EveryTargetInvoked ==
    /\ \A j \in 1..Len(probed) : probed[j].Error # ErrWrapperOpen
    /\ cpc = "done" => Len(probed) = Len(cycle.config)

\* ------------------------------------------------------------------- C39
\* C39: a collection cycle running concurrently with UpdateConfig uses one
\* configuration and one probe wrapper for all of its targets: while the
\* cycle runs, the collector's configuration and wrapper are the ones the
\* cycle began with, every target probed so far is that configuration's and
\* was probed through that wrapper.
C39_OneConfigPerCycle ==
    cpc \in {"loop", "done"}
    => ( /\ cMu > 0
         /\ cConfig = cycle.config
         /\ cFindmnt = cycle.findmnt
         /\ cfgMountPoints = cycle.config
         /\ cycle.used \subseteq {cycle.findmnt}
         /\ Len(probed) <= Len(cycle.config)
         /\ \A j \in 1..Len(probed) : probed[j].MountPoint = cycle.config[j] )

\* a cycle on the configuration of an earlier UpdateConfig is half-way
\* through its targets, and a further UpdateConfig call has to wait
C39_Witness ==
    /\ cpc = "loop"
    /\ updates = 1
    /\ cycle.findmnt = 1
    /\ cycle.used = {1}
    /\ 0 < ci /\ ci < Len(cfgMountPoints)
    /\ ~ENABLED (\E cfg \in CollectorLists : UpdateConfig(cfg))

====
